---- MODULE Spec2Model ----
(***************************************************************************)
(* A model of the YNAB MCP server: the tool facade (app/tools.py and the   *)
(* older package app/tools/__init__.py), the API client                    *)
(* (app/services/__init__.py) and the exception taxonomy                   *)
(* (app/exceptions/__init__.py), the token verifiers (app/main.py,         *)
(* app/auth.py, app/auth/ynab.py, app/auth/simple_ynab.py) and the         *)
(* monetary fields of the records (app/models).                            *)
(*                                                                         *)
(* One tool invocation runs from Invoke_* through zero or more Respond     *)
(* steps (one per awaited upstream request) to a result that is either a   *)
(* returned object or an exception raised past the tool boundary.          *)
(***************************************************************************)
EXTENDS Integers, Sequences, FiniteSets, TLC

VARIABLES
    pc,         \* "idle" | "await" (a request is in flight) | "done"
    call,       \* the arguments of the running tool invocation
    requests,   \* the upstream requests issued by this invocation, in order
    responses,  \* the upstream answers received by this invocation, in order
    raised,     \* the exception the API client raised to the tool (or NoExc)
    result,     \* what the tool handed to the protocol layer
    store,      \* the upstream's copy of the transaction update_transaction targets
    now,        \* the wall clock (time.time()), in seconds
    revoked,    \* the tokens the upstream no longer accepts
    rec,        \* a record materialized from an upstream answer
    shown,      \* what the last read of the record's formatted value returned
    invocations, \* the tool invocations the event loop runs side by side
    previous    \* the tool invocation that completed last, and what it left

vars == <<pc, call, requests, responses, raised, result, store, now, revoked, rec,
          shown, invocations, previous>>

\* The variables of one tool invocation or token verification.
callVars == <<pc, call, requests, responses, raised, result>>

\* The variables the tools neither read nor write.
otherVars == <<now, revoked, rec, shown, invocations, previous>>

(***************************************************************************)
(* Python values                                                           *)
(***************************************************************************)

\* Python's None for the optional string identifiers (ids are never "None").
None == "None"

\* Optional[str] whose characters matter (memo, dates): none, or a sequence
\* of one-character strings.
NoneStr == [none |-> TRUE, s |-> <<>>]

Str(cs) == [none |-> FALSE, s |-> cs]

\* `if x:` on an Optional[str]
Truthy(o) == ~o.none /\ o.s # <<>>

\* `if x:` on an optional identifier
Given(id) == id # None

Whitespace == {" ", "\t", "\n"}

RECURSIVE LStrip(_)
LStrip(cs) ==
    IF cs # <<>> /\ Head(cs) \in Whitespace THEN LStrip(Tail(cs)) ELSE cs

RECURSIVE RStrip(_)
RStrip(cs) ==
    IF cs # <<>> /\ cs[Len(cs)] \in Whitespace
    THEN RStrip(SubSeq(cs, 1, Len(cs) - 1))
    ELSE cs

\* str.strip()
Strip(cs) == RStrip(LStrip(cs))

\* A plausible slip: compare the memo with "" without stripping it.
IsMemoEmpty_NoStrip(memo) == memo.none \/ memo.s = <<>>

\* _is_memo_empty(memo)
IsMemoEmpty(memo) == memo.none \/ Strip(memo.s) = <<>>

(***************************************************************************)
(* Dates: datetime.strptime(date_str, "%Y-%m-%d")                          *)
(***************************************************************************)

DigitChars == <<"0", "1", "2", "3", "4", "5", "6", "7", "8", "9">>

IsDigit(c) == \E i \in 1..Len(DigitChars) : DigitChars[i] = c

DigitVal(c) == (CHOOSE i \in 1..Len(DigitChars) : DigitChars[i] = c) - 1

AllDigits(cs) == \A i \in 1..Len(cs) : IsDigit(cs[i])

RECURSIVE NumVal(_)
NumVal(cs) ==
    IF cs = <<>> THEN 0
    ELSE 10 * NumVal(SubSeq(cs, 1, Len(cs) - 1)) + DigitVal(cs[Len(cs)])

\* The positions of "-" in the string.
Dashes(cs) == {i \in 1..Len(cs) : cs[i] = "-"}

\* The three "-"-separated fields, when there are exactly two dashes.
FieldY(cs) == SubSeq(cs, 1, (CHOOSE i \in Dashes(cs) : \A j \in Dashes(cs) : i <= j) - 1)

FieldM(cs) ==
    LET lo == CHOOSE i \in Dashes(cs) : \A j \in Dashes(cs) : i <= j
        hi == CHOOSE i \in Dashes(cs) : \A j \in Dashes(cs) : i >= j
    IN  SubSeq(cs, lo + 1, hi - 1)

FieldD(cs) ==
    SubSeq(cs, (CHOOSE i \in Dashes(cs) : \A j \in Dashes(cs) : i >= j) + 1, Len(cs))

IsLeap(y) == (y % 4 = 0 /\ y % 100 # 0) \/ y % 400 = 0

DaysInMonth(y, m) ==
    IF m = 2 THEN (IF IsLeap(y) THEN 29 ELSE 28)
    ELSE IF m \in {4, 6, 9, 11} THEN 30 ELSE 31

\* The date(y, m, d) constructor: ValueError outside the calendar.
IsCalendarDate(y, m, d) ==
    y >= 1 /\ m \in 1..12 /\ d >= 1 /\ d <= DaysInMonth(y, m)

\* %Y is (\d\d\d\d); %m is (1[0-2]|0[1-9]|[1-9]); %d is
\* (3[01]|[12]\d|0[1-9]|[1-9]| [1-9]): one or two characters each, so an
\* unpadded month or day is accepted.
MatchesY(f) == Len(f) = 4 /\ AllDigits(f)

MatchesM(f) ==
    /\ Len(f) \in {1, 2}
    /\ AllDigits(f)
    /\ NumVal(f) \in 1..12

MatchesD(f) ==
    \/ Len(f) \in {1, 2} /\ AllDigits(f) /\ NumVal(f) \in 1..31
    \/ Len(f) = 2 /\ f[1] = " " /\ IsDigit(f[2]) /\ NumVal(<<f[2]>>) \in 1..9

DayVal(f) == IF f[1] = " " THEN NumVal(<<f[2]>>) ELSE NumVal(f)

\* A plausible slip: match the pattern but never build the date, so that
\* 30 February passes.
StrptimeAccepts_NoCalendar(cs) ==
    /\ Cardinality(Dashes(cs)) = 2
    /\ MatchesY(FieldY(cs))
    /\ MatchesM(FieldM(cs))
    /\ MatchesD(FieldD(cs))

\* datetime.strptime(cs, "%Y-%m-%d") returns (does not raise ValueError).
StrptimeAccepts(cs) ==
    /\ Cardinality(Dashes(cs)) = 2
    /\ MatchesY(FieldY(cs))
    /\ MatchesM(FieldM(cs))
    /\ MatchesD(FieldD(cs))
    /\ IsCalendarDate(NumVal(FieldY(cs)), NumVal(FieldM(cs)), DayVal(FieldD(cs)))

\* YNABService._validate_date_format: TRUE when it returns, FALSE when it
\* raises InvalidDateException.  An empty string is not looked at.
ValidateDateFormat(d) == Truthy(d) => StrptimeAccepts(d.s)

(***************************************************************************)
(* Text of upstream error messages: `"budget" in str(e).lower()`           *)
(***************************************************************************)

UpperChars == <<"A", "B", "C", "D", "E", "F", "G", "H", "I", "J", "K", "L", "M",
                "N", "O", "P", "Q", "R", "S", "T", "U", "V", "W", "X", "Y", "Z">>

LowerChars == <<"a", "b", "c", "d", "e", "f", "g", "h", "i", "j", "k", "l", "m",
                "n", "o", "p", "q", "r", "s", "t", "u", "v", "w", "x", "y", "z">>

LowerChar(c) ==
    IF \E i \in 1..Len(UpperChars) : UpperChars[i] = c
    THEN LowerChars[CHOOSE i \in 1..Len(UpperChars) : UpperChars[i] = c]
    ELSE c

\* str.lower()
Lower(cs) == [i \in 1..Len(cs) |-> LowerChar(cs[i])]

\* needle in hay
Contains(hay, needle) ==
    \E i \in 1..(Len(hay) - Len(needle) + 1) :
        SubSeq(hay, i, i + Len(needle) - 1) = needle

\* A plausible slip: test the message without lower-casing it.
MentionsBudget_CaseSensitive(msg) == Contains(msg, <<"b", "u", "d", "g", "e", "t">>)

MentionsBudget(msg) == Contains(Lower(msg), <<"b", "u", "d", "g", "e", "t">>)

(***************************************************************************)
(* Exceptions (app/exceptions/__init__.py)                                 *)
(***************************************************************************)

\* class -> its base class
BaseOf(cls) ==
    CASE cls = "YNABAPIException"         -> "YNABMCPException"
      [] cls = "AuthenticationException"  -> "YNABMCPException"
      [] cls = "RateLimitException"       -> "YNABAPIException"
      [] cls = "BudgetNotFoundException"  -> "YNABAPIException"
      [] cls = "AccountNotFoundException" -> "YNABAPIException"
      [] cls = "PayeeNotFoundException"   -> "YNABAPIException"
      [] cls = "CategoryNotFoundException" -> "YNABAPIException"
      [] cls = "InvalidDateException"     -> "YNABMCPException"
      [] cls = "YNABMCPException"         -> "Exception"
      [] cls = "JSONDecodeError"          -> "ValueError"
      [] cls = "ValueError"               -> "Exception"
      [] cls = "ZeroDivisionError"        -> "Exception"
      [] OTHER                            -> "Exception"

\* isinstance(e, base): `except base` catches an exception of class cls
RECURSIVE IsSubclass(_, _)
IsSubclass(cls, base) ==
    \/ cls = base
    \/ cls # "Exception" /\ IsSubclass(BaseOf(cls), base)

\* status_code and retry_after are <<>> for Python's None, <<n>> for the int n.
NoExc == [cls |-> "none", msg |-> <<>>, status_code |-> <<>>, id |-> None,
          retry_after |-> <<>>]

Exc(cls, msg, status, id) ==
    [cls |-> cls, msg |-> msg, status_code |-> status, id |-> id,
     retry_after |-> <<>>]

AuthenticationException ==
    Exc("AuthenticationException", <<"Invalid or expired access token">>, <<>>, None)

RateLimitException(retry_after) ==
    [cls |-> "RateLimitException", msg |-> <<"Rate limit exceeded">>,
     status_code |-> <<429>>, id |-> None, retry_after |-> retry_after]

BudgetNotFoundException(budget_id) ==
    Exc("BudgetNotFoundException",
        <<"Budget with ID '", budget_id, "' not found">>, <<404>>, budget_id)

AccountNotFoundException(account_id) ==
    Exc("AccountNotFoundException",
        <<"Account with ID '", account_id, "' not found">>, <<404>>, account_id)

PayeeNotFoundException(payee_id) ==
    Exc("PayeeNotFoundException",
        <<"Payee with ID '", payee_id, "' not found">>, <<404>>, payee_id)

CategoryNotFoundException(category_id) ==
    Exc("CategoryNotFoundException",
        <<"Category with ID '", category_id, "' not found">>, <<404>>, category_id)

InvalidDateException(d) ==
    Exc("InvalidDateException",
        <<"Invalid date format: '">> \o d.s \o <<"'. Expected format: YYYY-MM-DD">>,
        <<>>, None)

(***************************************************************************)
(* The upstream: a stub budget and the answers it can give                 *)
(***************************************************************************)

BudgetId == "last-used"

Tx(account_id, category_id, payee_id, memo, amount) ==
    [account_id |-> account_id, category_id |-> category_id,
     payee_id |-> payee_id, memo |-> memo, amount |-> amount]

\* The transactions of the budget, in the order the upstream lists them.
\* A list of transactions is the sequence of their ids.
Budget == <<"T1", "T2", "T3", "T4", "T5">>

\* The fields of the transaction with a given id, as every answer carries
\* them and as TransactionDetail(**transaction) keeps them.
TxData(id) ==
    CASE id = "T1" -> Tx("A1", "C1", "P1", NoneStr, -1000)
      [] id = "T2" -> Tx("A1", "C1", "P2", Str(<<" ", "\t">>), -2500)
      [] id = "T3" -> Tx("A1", "C2", "P1", Str(<<"o", "k">>), 5000)
      [] id = "T4" -> Tx("A2", "C1", "P1", Str(<<>>), -500)
      [] id = "T5" -> Tx("A2", None, None, Str(<<" ", "o", "k">>), -250)

\* What a well-behaved upstream lists at a transactions endpoint.
ScopeRows(req) ==
    LET InScope(t) ==
            CASE req.endpoint = "account_transactions"  -> TxData(t).account_id = req.id
              [] req.endpoint = "category_transactions" -> TxData(t).category_id = req.id
              [] req.endpoint = "payee_transactions"    -> TxData(t).payee_id = req.id
              [] OTHER                                  -> TRUE
    IN  SelectSeq(Budget, InScope)

\* The detail texts an upstream error body can carry.
DetailBudget == <<"B", "u", "d", "g", "e", "t", " ", "g", "o", "n", "e">>

DetailOther == <<"N", "o", " ", "s", "u", "c", "h", " ", "i", "d">>

ResourceNotFound ==
    <<"R", "e", "s", "o", "u", "r", "c", "e", " ", "n", "o", "t", " ",
      "f", "o", "u", "n", "d">>

\* An upstream answer.  net: the transport failed (httpx.RequestError) and
\* there is no response.  body: "empty" (no content), "detail_budget" /
\* "detail_other" (JSON with error.detail), "no_detail" (JSON without it),
\* "not_json" (content that json() cannot decode), "data" (a 2xx payload).
\* retry_after: the Retry-After header, "absent", "seconds" or "http_date".
Resp(net, status, body, retry_after, rows, tx) ==
    [net |-> net, status |-> status, body |-> body, retry_after |-> retry_after,
     rows |-> rows, tx |-> tx]

ErrorBodies == {"empty", "detail_budget", "detail_other", "no_detail", "not_json"}

\* An upstream that adds a patch's amount to the amount it holds instead
\* of replacing it.
Merge_AddAmount(cur, payload) ==
    [f \in DOMAIN cur |->
        IF f \notin DOMAIN payload THEN cur[f]
        ELSE IF f = "amount" THEN <<cur[f][1] + payload[f][1]>>
        ELSE payload[f]]

\* The upstream merges the patch of a PUT into the transaction it holds.
Merge(cur, payload) ==
    [f \in DOMAIN cur |-> IF f \in DOMAIN payload THEN payload[f] ELSE cur[f]]

\* The answers the upstream can give to a request while the targeted
\* transaction is `cur`; a PUT that succeeds echoes the merged transaction.
Answers(req, cur) ==
    {Resp(TRUE, 0, "empty", "absent", <<>>, cur)}
    \cup {Resp(FALSE, 401, "empty", "absent", <<>>, cur)}
    \cup {Resp(FALSE, 429, "empty", ra, <<>>, cur) :
            ra \in {"absent", "seconds", "http_date"}}
    \cup {Resp(FALSE, 404, b, "absent", <<>>, cur) : b \in ErrorBodies}
    \cup {Resp(FALSE, 500, b, "absent", <<>>, cur) :
            b \in {"empty", "detail_other", "not_json"}}
    \cup (IF req.method = "PUT"
          THEN {Resp(FALSE, 200, "data", "absent", <<>>, Merge(cur, req.payload))}
          ELSE IF req.endpoint \in {"transactions", "account_transactions",
                                    "category_transactions", "payee_transactions"}
          THEN {Resp(FALSE, 200, "data", "absent", rows, cur) :
                    rows \in {ScopeRows(req), Budget}}
          ELSE {Resp(FALSE, 200, "data", "absent", <<>>, cur)})

(***************************************************************************)
(* The API client (app/services/__init__.py)                               *)
(***************************************************************************)

\* A plausible slip: every request goes out as a PUT.
Req_AlwaysPut(method, endpoint, id, since_date, type, token, payload) ==
    [method |-> "PUT", endpoint |-> endpoint, id |-> id,
     since_date |-> since_date, type |-> type, token |-> token,
     payload |-> payload]

\* An outbound request.  since_date and type are the query parameters
\* (NoneStr / None when not sent); payload is the JSON body's "transaction"
\* object, a record over the fields that are sent (<<>> for a GET).
Req(method, endpoint, id, since_date, type, token, payload) ==
    [method |-> method, endpoint |-> endpoint, id |-> id,
     since_date |-> since_date, type |-> type, token |-> token,
     payload |-> payload]

\* error_data.get("error", {}).get("detail", default)
ErrorDetail(body, default) ==
    CASE body = "detail_budget" -> DetailBudget
      [] body = "detail_other"  -> DetailOther
      [] OTHER                  -> default

\* A plausible slip: raise the generic API exception for a 401 as well.
MakeRequest_401Generic(resp) ==
    IF resp.net THEN Exc("YNABAPIException", <<"Network error: ">>, <<>>, None)
    ELSE IF resp.status \in 200..299 THEN NoExc
    ELSE Exc("YNABAPIException", <<"API error: ", ToString(resp.status)>>,
             <<resp.status>>, None)

\* YNABService._make_request: the exception it raises for an upstream
\* answer, NoExc when it returns response.json().
MakeRequest(resp) ==
    IF resp.net
    THEN Exc("YNABAPIException", <<"Network error: ">>, <<>>, None)
    ELSE IF resp.status = 401 THEN AuthenticationException
    ELSE IF resp.status = 429
    THEN CASE resp.retry_after = "absent"  -> RateLimitException(<<>>)
           [] resp.retry_after = "seconds" -> RateLimitException(<<30>>)
           [] OTHER -> Exc("ValueError", <<"invalid literal for int()">>, <<>>, None)
    ELSE IF resp.status = 404
    THEN IF resp.body = "not_json"
         THEN Exc("JSONDecodeError", <<"Expecting value">>, <<>>, None)
         ELSE Exc("YNABAPIException", ErrorDetail(resp.body, ResourceNotFound),
                  <<404>>, None)
    ELSE IF ~(resp.status \in 200..299)
    THEN IF resp.body = "not_json"
         THEN Exc("JSONDecodeError", <<"Expecting value">>, <<>>, None)
         ELSE Exc("YNABAPIException",
                  ErrorDetail(resp.body, <<"API error: ", ToString(resp.status)>>),
                  <<resp.status>>, None)
    ELSE NoExc

\* One API-client method call, as the tool sees it:
\*   valid      the arguments pass the method's date validation
\*   invalid    the exception raised when they do not
\*   request    the request the method sends
\*   not_found  what the method's `except YNABAPIException` raises on a 404,
\*              by whether the message mentions the budget (NoExc: re-raise)
Method(valid, invalid, request, if_budget, otherwise) ==
    [valid |-> valid, invalid |-> invalid, request |-> request,
     not_found |-> [budget \in BOOLEAN |-> IF budget THEN if_budget ELSE otherwise]]

\* YNABService.get_budgets
GetBudgets(token) ==
    Method(TRUE, NoExc, Req("GET", "budgets", None, NoneStr, None, token, <<>>),
           NoExc, NoExc)

\* YNABService.get_budget
GetBudget(token) ==
    Method(TRUE, NoExc, Req("GET", "budget", None, NoneStr, None, token, <<>>),
           BudgetNotFoundException(BudgetId), BudgetNotFoundException(BudgetId))

\* YNABService.get_accounts
GetAccounts(token) ==
    Method(TRUE, NoExc, Req("GET", "accounts", None, NoneStr, None, token, <<>>),
           BudgetNotFoundException(BudgetId), BudgetNotFoundException(BudgetId))

\* YNABService.get_account
GetAccount(token, account_id) ==
    Method(TRUE, NoExc, Req("GET", "account", account_id, NoneStr, None, token, <<>>),
           BudgetNotFoundException(BudgetId), AccountNotFoundException(account_id))

\* A plausible slip: send the date without validating it.
GetTransactions_NoValidation(token, account_id, since_date, type) ==
    Method(TRUE, NoExc,
           Req("GET",
               IF Given(account_id) THEN "account_transactions" ELSE "transactions",
               account_id, since_date, type, token, <<>>),
           IF Given(account_id) THEN AccountNotFoundException(account_id)
                                ELSE BudgetNotFoundException(BudgetId),
           IF Given(account_id) THEN AccountNotFoundException(account_id)
                                ELSE BudgetNotFoundException(BudgetId))

\* YNABService.get_transactions
GetTransactions(token, account_id, since_date, type) ==
    Method(ValidateDateFormat(since_date), InvalidDateException(since_date),
           Req("GET",
               IF Given(account_id) THEN "account_transactions" ELSE "transactions",
               account_id,
               IF Truthy(since_date) THEN since_date ELSE NoneStr,
               type, token, <<>>),
           IF Given(account_id) THEN AccountNotFoundException(account_id)
                                ELSE BudgetNotFoundException(BudgetId),
           IF Given(account_id) THEN AccountNotFoundException(account_id)
                                ELSE BudgetNotFoundException(BudgetId))

\* YNABService.get_categories
GetCategories(token) ==
    Method(TRUE, NoExc, Req("GET", "categories", None, NoneStr, None, token, <<>>),
           BudgetNotFoundException(BudgetId), BudgetNotFoundException(BudgetId))

\* YNABService.get_payees
GetPayees(token) ==
    Method(TRUE, NoExc, Req("GET", "payees", None, NoneStr, None, token, <<>>),
           BudgetNotFoundException(BudgetId), BudgetNotFoundException(BudgetId))

\* A plausible slip: the payee endpoint is called without the query
\* parameters.
GetPayeeTransactions_NoParams(token, payee_id, since_date, type) ==
    Method(ValidateDateFormat(since_date), InvalidDateException(since_date),
           Req("GET", "payee_transactions", payee_id, NoneStr, None, token, <<>>),
           BudgetNotFoundException(BudgetId), PayeeNotFoundException(payee_id))

\* YNABService.get_payee_transactions
GetPayeeTransactions(token, payee_id, since_date, type) ==
    Method(ValidateDateFormat(since_date), InvalidDateException(since_date),
           Req("GET", "payee_transactions", payee_id,
               IF Truthy(since_date) THEN since_date ELSE NoneStr,
               type, token, <<>>),
           BudgetNotFoundException(BudgetId), PayeeNotFoundException(payee_id))

\* get_category_transactions is called by the tool facade but is not among
\* the API client's methods; it is modelled from the specification: one
\* request to the category-scoped endpoint, with the date validated and the
\* not-found outcome told apart like get_payee_transactions does.
GetCategoryTransactions(token, category_id, since_date, type) ==
    Method(ValidateDateFormat(since_date), InvalidDateException(since_date),
           Req("GET", "category_transactions", category_id,
               IF Truthy(since_date) THEN since_date ELSE NoneStr,
               type, token, <<>>),
           BudgetNotFoundException(BudgetId), CategoryNotFoundException(category_id))

\* The exception an API-client method raises to the tool for the exception
\* e that _make_request raised: its `except YNABAPIException` clause.
ServiceRaise(m, e) ==
    IF IsSubclass(e.cls, "YNABAPIException") /\ e.status_code = <<404>>
    THEN (IF m.not_found[MentionsBudget(e.msg)] = NoExc
          THEN e
          ELSE m.not_found[MentionsBudget(e.msg)])
    ELSE e

(***************************************************************************)
(* update_transaction of the API client                                    *)
(***************************************************************************)

UpdFields == {"memo", "amount", "payee_id", "payee_name", "category_id",
              "cleared", "approved", "flag_color", "date"}

\* `v is None` for the value v of update field f: memo and date are
\* Optional[str] records, amount and approved are <<>> or <<v>>, the rest
\* are optional identifiers.
IsNoneField(f, v) ==
    CASE f \in {"memo", "date"}       -> v.none
      [] f \in {"amount", "approved"} -> v = <<>>
      [] OTHER                        -> v = None

\* A plausible slip: send every field, None included.
Payload_AllFields(upd) == [f \in UpdFields |-> upd[f]]

\* transaction_data: only the fields that are not None
Payload(upd) ==
    [f \in {g \in UpdFields : ~IsNoneField(g, upd[g])} |-> upd[f]]

\* YNABService.update_transaction
UpdateTransaction(token, transaction_id, upd) ==
    Method(ValidateDateFormat(upd.date), InvalidDateException(upd.date),
           Req("PUT", "transaction", transaction_id, NoneStr, None, token,
               Payload(upd)),
           BudgetNotFoundException(BudgetId), NoExc)

(***************************************************************************)
(* The tool facade: results                                                *)
(***************************************************************************)

NoResult == [kind |-> "none", value |-> <<>>, exc |-> NoExc]

\* The tool returned the object v to the protocol layer.
Return(v) == [kind |-> "return", value |-> v, exc |-> NoExc]

\* The exception e left the tool.
Raise(e) == [kind |-> "raise", value |-> <<>>, exc |-> e]

\* {"error": "No valid authentication token found"}
NoTokenError == [error |-> <<"No valid authentication token found">>]

\* {"error": str(e), key: e.<key>}
ErrorWithId(e, key) == [k \in {"error", key} |-> IF k = "error" THEN e.msg ELSE e.id]

\* {"error": str(e), "status_code": e.status_code}
ErrorWithStatus(e) == [error |-> e.msg, status_code |-> e.status_code]

\* get_budgets: except YNABAPIException
GetBudgets_Except(e) ==
    IF IsSubclass(e.cls, "YNABAPIException") THEN Return(ErrorWithStatus(e))
    ELSE Raise(e)

\* get_account: except (BudgetNotFoundException, AccountNotFoundException),
\* then YNABAPIException
GetAccount_Except(e) ==
    IF IsSubclass(e.cls, "BudgetNotFoundException")
       \/ IsSubclass(e.cls, "AccountNotFoundException")
    THEN Return([error |-> e.msg])
    ELSE IF IsSubclass(e.cls, "YNABAPIException") THEN Return(ErrorWithStatus(e))
    ELSE Raise(e)

\* A plausible slip: catch every exception of the package.
BudgetTool_Except_CatchAll(e) ==
    IF IsSubclass(e.cls, "BudgetNotFoundException")
    THEN Return(ErrorWithId(e, "budget_id"))
    ELSE Return(ErrorWithStatus(e))

\* get_budget, get_accounts, get_categories, get_payees, find_payee_by_name,
\* analyze_spending, update_transaction: except BudgetNotFoundException, then
\* YNABAPIException
BudgetTool_Except(e) ==
    IF IsSubclass(e.cls, "BudgetNotFoundException")
    THEN Return(ErrorWithId(e, "budget_id"))
    ELSE IF IsSubclass(e.cls, "YNABAPIException") THEN Return(ErrorWithStatus(e))
    ELSE Raise(e)

\* get_transactions of app/tools.py: its five except clauses
GetTransactions_Except(e) ==
    IF IsSubclass(e.cls, "BudgetNotFoundException")
    THEN Return(ErrorWithId(e, "budget_id"))
    ELSE IF IsSubclass(e.cls, "AccountNotFoundException")
    THEN Return(ErrorWithId(e, "account_id"))
    ELSE IF IsSubclass(e.cls, "PayeeNotFoundException")
    THEN Return(ErrorWithId(e, "payee_id"))
    ELSE IF IsSubclass(e.cls, "CategoryNotFoundException")
    THEN Return(ErrorWithId(e, "category_id"))
    ELSE IF IsSubclass(e.cls, "YNABAPIException") THEN Return(ErrorWithStatus(e))
    ELSE Raise(e)

\* get_transactions of app/tools/__init__.py: its four except clauses
Pkg_GetTransactions_Except(e) ==
    IF IsSubclass(e.cls, "BudgetNotFoundException")
    THEN Return(ErrorWithId(e, "budget_id"))
    ELSE IF IsSubclass(e.cls, "AccountNotFoundException")
    THEN Return(ErrorWithId(e, "account_id"))
    ELSE IF IsSubclass(e.cls, "PayeeNotFoundException")
    THEN Return(ErrorWithId(e, "payee_id"))
    ELSE IF IsSubclass(e.cls, "YNABAPIException") THEN Return(ErrorWithStatus(e))
    ELSE Raise(e)

(***************************************************************************)
(* get_transactions: the filter resolution (app/tools.py)                  *)
(***************************************************************************)

\* The payee_id argument: absent, one id, a list of ids, or a string holding
\* the JSON text of a list of ids.  ids is <<id>> for one id.
NoPayee == [kind |-> "none", ids |-> <<>>]

OnePayee(id) == [kind |-> "str", ids |-> <<id>>]

PayeeList(ids) == [kind |-> "list", ids |-> ids]

PayeeJson(ids) == [kind |-> "json", ids |-> ids]

\* A string that starts with "[" is decoded with json.loads.
ParsePayee(p) == IF p.kind = "json" THEN PayeeList(p.ids) ELSE p

\* `if payee_id:` after parsing: an empty list counts as absent.
PayeeTruthy(p) == p.kind = "str" \/ (p.kind = "list" /\ p.ids # <<>>)

\* A plausible slip: give the payee filter priority over the account filter.
Branch_PayeeFirst(c) ==
    LET p == ParsePayee(c.payee)
    IN  IF PayeeTruthy(p) /\ ~Given(c.category_id)
        THEN (IF p.kind = "list" THEN "payee_list" ELSE "payee")
        ELSE IF Given(c.account_id) THEN "account"
        ELSE IF Given(c.category_id) /\ PayeeTruthy(p) THEN "category_payee"
        ELSE IF Given(c.category_id) THEN "category"
        ELSE "all"

\* The if / elif chain: account > category + payee > category > payee > all.
Branch(c) ==
    LET p == ParsePayee(c.payee)
    IN  IF Given(c.account_id) THEN "account"
        ELSE IF Given(c.category_id) /\ PayeeTruthy(p) THEN "category_payee"
        ELSE IF Given(c.category_id) THEN "category"
        ELSE IF PayeeTruthy(p)
        THEN (IF p.kind = "list" THEN "payee_list" ELSE "payee")
        ELSE "all"

\* The API-client calls the tool makes when every one of them succeeds.
GetTransactions_Plan(c) ==
    LET p == ParsePayee(c.payee)
        b == Branch(c)
    IN  CASE b = "account" ->
               <<GetTransactions(c.cred, c.account_id, c.since_date,
                                 c.transaction_type)>>
          [] b \in {"category_payee", "category"} ->
               <<GetCategoryTransactions(c.cred, c.category_id, c.since_date,
                                         c.transaction_type)>>
          [] b = "payee_list" ->
               [i \in 1..Len(p.ids) |->
                    GetPayeeTransactions(c.cred, p.ids[i], c.since_date,
                                         c.transaction_type)]
          [] b = "payee" ->
               <<GetPayeeTransactions(c.cred, p.ids[1], c.since_date,
                                      c.transaction_type)>>
          [] OTHER ->
               <<GetTransactions(c.cred, None, c.since_date, c.transaction_type)>>

\* A plausible slip: assign each answer's rows instead of extending the list.
Fetched_LastOnly(resps) ==
    IF resps = <<>> THEN <<>> ELSE resps[Len(resps)].rows

\* filtered_transactions.extend(...) over the answers received
RECURSIVE Fetched(_)
Fetched(resps) ==
    IF resps = <<>> THEN <<>> ELSE Head(resps).rows \o Fetched(Tail(resps))

\* t.payee_id in payee_id / t.payee_id == payee_id
FilterPayee(p, rows) ==
    LET Keep(t) == IF p.kind = "list"
                   THEN \E i \in 1..Len(p.ids) : p.ids[i] = TxData(t).payee_id
                   ELSE TxData(t).payee_id = p.ids[1]
    IN  SelectSeq(rows, Keep)

FilterCategory(category_id, rows) ==
    LET Keep(t) == TxData(t).category_id = category_id
    IN  SelectSeq(rows, Keep)

\* A plausible slip: the empty_memo=False case keeps the empty memos too.
FilterMemo_FalseKeepsAll(empty_memo, rows) ==
    LET Keep(t) == IsMemoEmpty(TxData(t).memo)
    IN  IF empty_memo = <<TRUE>> THEN SelectSeq(rows, Keep) ELSE rows

\* empty_memo is <<>> (None), <<TRUE>> or <<FALSE>>.
FilterMemo(empty_memo, rows) ==
    LET Keep(t) == IsMemoEmpty(TxData(t).memo)
        Drop(t) == ~IsMemoEmpty(TxData(t).memo)
    IN  IF empty_memo = <<>> THEN rows
        ELSE IF empty_memo = <<TRUE>> THEN SelectSeq(rows, Keep)
        ELSE SelectSeq(rows, Drop)

\* A plausible slip: the category + payee branch forgets the payee filter.
GetTransactions_Filter_NoPayee(c, rows) ==
    LET p  == ParsePayee(c.payee)
        b  == Branch(c)
        r1 == IF b = "account" /\ PayeeTruthy(p) THEN FilterPayee(p, rows) ELSE rows
        r2 == IF b = "account" /\ Given(c.category_id)
              THEN FilterCategory(c.category_id, r1) ELSE r1
    IN  FilterMemo(c.empty_memo, r2)

\* The in-memory filters of the chosen branch.
GetTransactions_Filter(c, rows) ==
    LET p  == ParsePayee(c.payee)
        b  == Branch(c)
        r1 == IF b \in {"account", "category_payee"} /\ PayeeTruthy(p)
              THEN FilterPayee(p, rows) ELSE rows
        r2 == IF b = "account" /\ Given(c.category_id)
              THEN FilterCategory(c.category_id, r1) ELSE r1
    IN  FilterMemo(c.empty_memo, r2)

\* _build_transactions_widget_payload: the summary counts (at most six rows
\* are displayed).
WidgetPayload(rows) ==
    [rowCount |-> Len(rows),
     displayCount |-> IF Len(rows) > 6 THEN 6 ELSE Len(rows)]

\* The keys of the response object of each branch.
GetTransactions_Keys(c) ==
    LET p == ParsePayee(c.payee)
        b == Branch(c)
    IN  {"transactions", "count", "budget_id"}
        \cup (IF b = "account" THEN {"account_id"} ELSE {})
        \cup (IF b = "account" /\ PayeeTruthy(p) THEN {"payee_id"} ELSE {})
        \cup (IF b = "account" /\ Given(c.category_id) THEN {"category_id"} ELSE {})
        \cup (IF b = "category_payee"
              THEN {"category_id", "payee_id", "filtered_by"} ELSE {})
        \cup (IF b = "category" THEN {"category_id"} ELSE {})
        \cup (IF b \in {"payee", "payee_list"} THEN {"payee_id"} ELSE {})
        \cup (IF c.empty_memo # <<>> THEN {"empty_memo"} ELSE {})
        \cup (IF c.widget THEN {"structuredContent", "_meta"} ELSE {})

\* The response object the tool returns once every request has succeeded.
GetTransactions_Return(c, resps) ==
    LET rows == GetTransactions_Filter(c, Fetched(resps))
    IN  Return([k \in GetTransactions_Keys(c) |->
            CASE k = "transactions"      -> rows
              [] k = "count"             -> Len(rows)
              [] k = "budget_id"         -> BudgetId
              [] k = "account_id"        -> c.account_id
              [] k = "category_id"       -> c.category_id
              [] k = "payee_id"          -> ParsePayee(c.payee)
              [] k = "filtered_by"       -> "category_then_payee"
              [] k = "empty_memo"        -> c.empty_memo
              [] k = "structuredContent" -> WidgetPayload(rows)
              [] OTHER                   -> "widget"])

(***************************************************************************)
(* get_transactions of the older facade (app/tools/__init__.py)            *)
(***************************************************************************)

\* `if payee_id:` comes first; the account id only reaches the API client
\* in the else branch.
Pkg_GetTransactions_Plan(c) ==
    IF PayeeTruthy(c.payee)
    THEN <<GetPayeeTransactions(c.cred, c.payee.ids[1], c.since_date,
                                c.transaction_type)>>
    ELSE <<GetTransactions(c.cred, c.account_id, c.since_date,
                           c.transaction_type)>>

Pkg_GetTransactions_Return(c, resps) ==
    IF PayeeTruthy(c.payee)
    THEN Return([transactions |-> Fetched(resps), count |-> Len(Fetched(resps)),
                 payee_id |-> c.payee, budget_id |-> BudgetId])
    ELSE Return([transactions |-> Fetched(resps), count |-> Len(Fetched(resps)),
                 account_id |-> c.account_id])

(***************************************************************************)
(* The other tools                                                         *)
(***************************************************************************)

\* The date analyze_spending computes, strftime("%Y-%m-%d") of a day
\* 30 * months days before now: always a well-formed date.
AnalysisSince == Str(<<"2", "0", "2", "4", "-", "0", "1", "-", "0", "1">>)

RECURSIVE SumAmounts(_)
SumAmounts(rows) ==
    IF rows = <<>> THEN 0 ELSE TxData(Head(rows)).amount + SumAmounts(Tail(rows))

\* The rows with a negative amount (the expenses).
Expenses(rows) ==
    LET Neg(t) == TxData(t).amount < 0
    IN  SelectSeq(rows, Neg)

\* analyze_spending: the analysis of the fetched transactions.  The
\* average is abs(total) / (30 * months) / 1000.0, computed only when the
\* total is not zero: it is kept as numerator and denominator, and a zero
\* denominator is Python's ZeroDivisionError.
AnalyzeSpending_Return(c, resps) ==
    LET spent == Expenses(resps[1].rows)
        total == SumAmounts(spent)
        cats  == {TxData(spent[i]).category_id : i \in 1..Len(spent)} \ {None}
        OfCat(cat) == LET In(t) == TxData(t).category_id = cat IN SelectSeq(spent, In)
    IN  IF total # 0 /\ 30 * c.months = 0
        THEN Raise(Exc("ZeroDivisionError", <<"float division by zero">>, <<>>, None))
        ELSE Return([analysis_period_days |-> 30 * c.months,
                     total_spending_milliunits |-> 0 - total,
                     transaction_count |-> Len(spent),
                     category_spending |->
                        [cat \in cats |-> 0 - SumAmounts(OfCat(cat))],
                     average_daily_spending |->
                        IF total # 0
                        THEN [num |-> 0 - total, den |-> 30 * c.months * 1000]
                        ELSE [num |-> 0, den |-> 1]])

\* A float argument that is the dyadic rational m / 2^e, so that
\* amount * 1000 is computed exactly.
Float(m, e) == [m |-> m, e |-> e, finite |-> TRUE, decimal |-> FALSE]

\* The float a caller gets by writing an amount with up to three decimal
\* places: the double nearest to k / 1000.
Thousandths(k) == [m |-> k, e |-> 3, finite |-> TRUE, decimal |-> TRUE]

\* float("inf"), which a JSON number such as 1e999 decodes to
Infinity == [m |-> 1, e |-> 0, finite |-> FALSE, decimal |-> FALSE]

\* int(x) of an infinite float x
OverflowError ==
    Exc("OverflowError", <<"cannot convert float infinity to integer">>, <<>>, None)

RECURSIVE Pow2(_)
Pow2(e) == IF e = 0 THEN 1 ELSE 2 * Pow2(e - 1)

\* floor(log2(k)) for k >= 1
RECURSIVE FloorLog2(_)
FloorLog2(k) == IF k < 2 THEN 0 ELSE 1 + FloorLog2(k \div 2)

\* 2^s mod n
RECURSIVE Pow2Mod(_, _)
Pow2Mod(s, n) == IF s = 0 THEN 1 % n ELSE (2 * Pow2Mod(s - 1, n)) % n

\* int(x * 1000) for the double x nearest to k / 1000, 0 < k < 2^20, in
\* IEEE 754 binary64 with round-to-nearest-even.  x = m / 2^s with
\* 2^52 <= m < 2^53, and 1000 * x = k + r / 2^s where r = 1000 * m - k * 2^s
\* lies in -500..500.  The product rounds to the double below k exactly
\* when -r exceeds half the spacing of the doubles below k, which is
\* 2^(d-1) in units of 2^-s (2^(d-2) when k is a power of two), d being
\* floor(log2 k) - floor(log2 (k / 1000)); int() then gives k - 1.
TimesThousand(k) ==
    LET E   == FloorLog2(k)
        d   == IF k * 64 >= 125 * Pow2(E) THEN 9 ELSE 10
        s   == 52 - (E - d)
        n   == ((k % 2000) * Pow2Mod(s, 2000)) % 2000
        rem == n % 1000
        odd == n >= 1000
        r   == IF rem < 500 \/ (rem = 500 /\ ~odd) THEN 0 - rem ELSE 1000 - rem
        half == IF k = Pow2(E) THEN Pow2(d - 2) ELSE Pow2(d - 1)
    IN  IF 0 - r > half THEN k - 1 ELSE k

\* A plausible slip: round to the nearest milliunit instead of truncating.
ToMilliunits_Rounded(a) ==
    IF a.decimal THEN a.m
    ELSE IF a.m >= 0 THEN (a.m * 2000 + Pow2(a.e)) \div (2 * Pow2(a.e))
    ELSE 0 - ((0 - a.m * 2000 + Pow2(a.e)) \div (2 * Pow2(a.e)))

\* int(amount * 1000): truncation toward zero
ToMilliunits(a) ==
    IF a.decimal
    THEN (IF a.m = 0 THEN 0
          ELSE IF a.m > 0 THEN TimesThousand(a.m)
          ELSE 0 - TimesThousand(0 - a.m))
    ELSE IF a.m >= 0 THEN (a.m * 1000) \div Pow2(a.e)
    ELSE 0 - ((0 - a.m * 1000) \div Pow2(a.e))

ClearedStatuses == {"cleared", "uncleared", "reconciled"}

FlagColors == {"red", "orange", "yellow", "green", "blue", "purple"}

\* update_transaction: the amount conversion and the checks made after the
\* credential check and before the API client is called.  NoResult when
\* they pass.
UpdateTransaction_Check(c) ==
    IF c.upd.amount # <<>> /\ ~c.upd.amount[1].finite
    THEN BudgetTool_Except(OverflowError)
    ELSE IF c.upd.cleared # None /\ c.upd.cleared \notin ClearedStatuses
    THEN Return([error |-> <<"Invalid cleared status '", c.upd.cleared,
                             "'. Must be one of: cleared, uncleared, reconciled">>])
    ELSE IF c.upd.flag_color # None /\ c.upd.flag_color \notin FlagColors
    THEN Return([error |-> <<"Invalid flag color '", c.upd.flag_color,
                             "'. Must be one of: red, orange, yellow, green, blue, purple">>])
    ELSE NoResult

\* The id of the transaction update_transaction is called on.
TransactionId == "TX"

\* update_transaction: the one API-client call, with the amount converted.
UpdateTransaction_Plan(c) ==
    <<UpdateTransaction(c.cred, TransactionId,
        [c.upd EXCEPT !.amount =
            IF c.upd.amount = <<>> THEN <<>> ELSE <<ToMilliunits(c.upd.amount[1])>>])>>

\* The ten tools; both facades register the same names.
ReadTools == {"get_budgets", "get_budget", "get_accounts", "get_account",
              "get_categories", "get_payees", "find_payee_by_name"}

Tools == ReadTools \cup {"get_transactions", "analyze_spending", "update_transaction"}

\* The API-client calls a tool makes when every one of them succeeds.
Tool_Plan(c) ==
    CASE c.tool = "get_transactions" /\ c.impl = "module" -> GetTransactions_Plan(c)
      [] c.tool = "get_transactions" /\ c.impl = "package" -> Pkg_GetTransactions_Plan(c)
      [] c.tool = "get_budgets"  -> <<GetBudgets(c.cred)>>
      [] c.tool = "get_budget"   -> <<GetBudget(c.cred)>>
      [] c.tool = "get_accounts" -> <<GetAccounts(c.cred)>>
      [] c.tool = "get_account"  -> <<GetAccount(c.cred, c.account_id)>>
      [] c.tool = "get_categories" -> <<GetCategories(c.cred)>>
      [] c.tool \in {"get_payees", "find_payee_by_name"} -> <<GetPayees(c.cred)>>
      [] c.tool = "analyze_spending" ->
            <<GetTransactions(c.cred, None, AnalysisSince, None),
              GetCategories(c.cred)>>
      [] c.tool = "update_transaction" -> UpdateTransaction_Plan(c)

\* What the tool hands back once its API-client calls have succeeded.
Tool_Return(c, resps) ==
    CASE c.tool = "get_transactions" /\ c.impl = "module" ->
            GetTransactions_Return(c, resps)
      [] c.tool = "get_transactions" /\ c.impl = "package" ->
            Pkg_GetTransactions_Return(c, resps)
      [] c.tool = "analyze_spending" -> AnalyzeSpending_Return(c, resps)
      [] c.tool = "update_transaction" ->
            Return([f \in UpdFields \cup {"id"} |->
                        IF f = "id" THEN TransactionId ELSE resps[1].tx[f]])
      [] c.tool \in {"get_budget", "get_account"} ->
            Return([id |-> IF c.tool = "get_account" THEN c.account_id ELSE BudgetId])
      [] c.tool = "find_payee_by_name" ->
            Return([payees |-> <<>>, count |-> 0, search_term |-> "name",
                    budget_id |-> BudgetId])
      [] OTHER -> Return([items |-> <<>>, count |-> 0])

\* The tool's except clauses.
Tool_Except(c, e) ==
    CASE c.tool = "get_transactions" /\ c.impl = "module" -> GetTransactions_Except(e)
      [] c.tool = "get_transactions" /\ c.impl = "package" ->
            Pkg_GetTransactions_Except(e)
      [] c.tool = "get_budgets" -> GetBudgets_Except(e)
      [] c.tool = "get_account" -> GetAccount_Except(e)
      [] OTHER -> BudgetTool_Except(e)

\* A plausible slip: validate the arguments before looking for the token.
Tool_Entry_ValidateFirst(c) ==
    IF c.tool = "update_transaction" /\ UpdateTransaction_Check(c) # NoResult
    THEN UpdateTransaction_Check(c)
    ELSE IF ~Given(c.cred) THEN Return(NoTokenError)
    ELSE NoResult

\* The start of every tool: get_access_token(), `if not token`, then the
\* tool's own checks.  NoResult when the tool goes on to the API client.
Tool_Entry(c) ==
    IF ~Given(c.cred) THEN Return(NoTokenError)
    ELSE IF c.tool = "update_transaction" THEN UpdateTransaction_Check(c)
    ELSE NoResult

(***************************************************************************)
(* Token verification (app/main.py, app/auth.py, app/auth/ynab.py,         *)
(* app/auth/simple_ynab.py)                                                *)
(***************************************************************************)

\* The four verify_token implementations: YNABTokenVerifier of app/main.py
\* (the one create_mcp_server installs), of app/auth.py and of
\* app/auth/ynab.py, and SimpleYNABVerifier of app/auth/simple_ynab.py.
Verifiers == {"main", "auth_py", "auth_ynab", "simple_ynab"}

\* The development token SimpleYNABVerifier accepts without asking the upstream.
TestToken == "test-token-123"

\* A plausible slip: take the current time as the expiry.
Horizon_None(v) == 0

\* The seconds added to time.time() for expires_at.
Horizon(v) == IF v \in {"auth_ynab", "simple_ynab"} THEN 90 * 60 ELSE 2 * 60 * 60

\* verify_token returned None.
NoCredential ==
    [valid |-> FALSE, token |-> None, client_id |-> None, sub |-> None,
     email |-> None, expires_at |-> 0]

\* AccessToken(token=..., client_id=..., expires_at=..., claims={sub, email})
AccessToken(token, client_id, sub, email, expires_at) ==
    [valid |-> TRUE, token |-> token, client_id |-> client_id, sub |-> sub,
     email |-> email, expires_at |-> expires_at]

\* client.get("https://api.ynab.com/v1/user", headers={"Authorization": ...})
UserReq(token) ==
    Req("GET", "user", None, NoneStr, None, token, <<>>)

\* The user the upstream knows a token to belong to.
UserOf(token) == [id |-> "user-1", email |-> "user-1@example.com"]

\* An outcome of the who-am-I call.  kind: "response", "timeout"
\* (httpx.TimeoutException) or "transport" (another httpx.RequestError).
\* body: "user" ({"data": {"user": {...}}}), "no_user" (a JSON object
\* without data.user), "not_object" (JSON that is no object), "not_json".
UserResp(kind, status, body) == [kind |-> kind, status |-> status, body |-> body]

UserBodies == {"user", "no_user", "not_object", "not_json"}

\* The outcomes the who-am-I call can have for a token; a revoked token is
\* never answered 200.
UserAnswers(token, rev) ==
    {UserResp("timeout", 0, "not_json"), UserResp("transport", 0, "not_json")}
    \cup {UserResp("response", st, b) : st \in {204, 401, 500}, b \in UserBodies}
    \cup (IF token \in rev THEN {}
          ELSE {UserResp("response", 200, b) : b \in UserBodies})

\* client_id of the credential
ClientId(v) == IF v = "simple_ynab" THEN "ynab-direct" ELSE "ynab-client"

\* A plausible slip: build the credential from the body whatever the status.
VerifyOutcome_AnyStatus(v, token, resp, t) ==
    IF resp.kind # "response" \/ resp.body \in {"not_json", "not_object"}
    THEN NoCredential
    ELSE AccessToken(token, ClientId(v),
                     IF resp.body = "user" THEN UserOf(token).id ELSE "unknown",
                     IF resp.body = "user" THEN UserOf(token).email ELSE None,
                     t + Horizon(v))

\* What verify_token returns for an outcome of the who-am-I call at time t:
\* `except Exception` turns a timeout, a transport error, a body that
\* json() cannot decode and a body without .get into None.
VerifyOutcome(v, token, resp, t) ==
    IF resp.kind # "response" THEN NoCredential
    ELSE IF resp.status # 200 THEN NoCredential
    ELSE IF resp.body \in {"not_json", "not_object"} THEN NoCredential
    ELSE AccessToken(token, ClientId(v),
                     IF resp.body = "user" THEN UserOf(token).id ELSE "unknown",
                     IF resp.body = "user" THEN UserOf(token).email ELSE None,
                     t + Horizon(v))

\* SimpleYNABVerifier: `if token == "test-token-123"` returns a credential
\* before any request.  NoCredential when the verifier goes on to the upstream.
VerifyBypass(v, token, t) ==
    IF v = "simple_ynab" /\ token = TestToken
    THEN AccessToken(token, "ynab-test", "test-user-123", "test@example.com",
                     t + 90 * 60)
    ELSE NoCredential

(***************************************************************************)
(* Monetary fields of the records (app/models)                             *)
(***************************************************************************)

\* The integer milliunit fields of each record class; the goal fields of a
\* category are Optional[int].
MoneyFields(kind) ==
    CASE kind = "Account" -> {"balance", "cleared_balance", "uncleared_balance"}
      [] kind = "Category" ->
            {"budgeted", "activity", "balance", "goal_target", "goal_under_funded",
             "goal_overall_funded", "goal_overall_left"}
      [] OTHER -> {"amount"}

OptionalMoneyFields ==
    {"goal_target", "goal_under_funded", "goal_overall_funded", "goal_overall_left"}

RecordKinds == {"Account", "Category", "Transaction", "SubTransaction"}

\* The float m / 1000.0, written as the decimal it stands for: milliunits
\* below 2^53 / 1000 in size divide to the double nearest that decimal.
Decimal(m) ==
    LET a == IF m < 0 THEN 0 - m ELSE m
    IN  [neg |-> m < 0, units |-> a \div 1000, thousandths |-> a % 1000]

\* A plausible slip: integer division, which drops the thousandths.
Formatted_IntegerDivision(v) ==
    IF v = <<>> THEN <<>>
    ELSE <<[Decimal(v[1]) EXCEPT !.thousandths = 0]>>

\* <field>_formatted: self.<field> / 1000.0, or None for a goal field that
\* is None.  An optional integer is <<>> or <<m>>.
Formatted(v) == IF v = <<>> THEN <<>> ELSE <<Decimal(v[1])>>

NoRecord == [kind |-> "none", fields |-> <<>>, writes |-> 0]

NotShown == [field |-> "none", value |-> <<>>]

(***************************************************************************)
(* Inputs                                                                  *)
(***************************************************************************)

\* The longest payee-id list a caller passes.
MaxPayees == 2

PayeeIds == {"P1", "P2"}

PayeeLists == UNION {[1..n -> PayeeIds] : n \in 0..MaxPayees}

PayeeArgs ==
    {NoPayee}
    \cup {OnePayee(id) : id \in PayeeIds}
    \cup {PayeeList(l) : l \in PayeeLists}
    \cup {PayeeJson(<<>>), PayeeJson(<<"P2">>)}

\* The bearer tokens of authenticated callers; None: no credential.
Tokens == {"tokA"}

Date_2024_02_29 == Str(<<"2", "0", "2", "4", "-", "0", "2", "-", "2", "9">>)

Date_2023_02_29 == Str(<<"2", "0", "2", "3", "-", "0", "2", "-", "2", "9">>)

Date_2024_13_01 == Str(<<"2", "0", "2", "4", "-", "1", "3", "-", "0", "1">>)

Date_2024_1_5 == Str(<<"2", "0", "2", "4", "-", "1", "-", "5">>)

Date_NotADate == Str(<<"n", "o", "t", "-", "a", "-", "d", "a", "t", "e">>)

\* since_date arguments of get_transactions
SinceDates == {NoneStr, Str(<<>>), Date_2024_02_29, Date_2024_13_01, Date_2024_1_5}

\* date arguments of update_transaction
UpdateDates == {NoneStr, Str(<<>>), Date_2024_02_29, Date_2023_02_29, Date_NotADate}

Groceries == Str(<<"g", "r", "o", "c", "e", "r", "i", "e", "s">>)

NoUpdate ==
    [memo |-> NoneStr, amount |-> <<>>, payee_id |-> None, payee_name |-> None,
     category_id |-> None, cleared |-> None, approved |-> <<>>,
     flag_color |-> None, date |-> NoneStr]

\* The arguments of an update_transaction call.
Updates ==
    {[NoUpdate EXCEPT !.memo = m, !.amount = a, !.cleared = cl,
                      !.flag_color = fc, !.date = d] :
        m \in {NoneStr, Groceries}, a \in {<<>>, <<Float(50, 0)>>, <<Infinity>>, <<Thousandths(0 - 25990)>>,
               <<Thousandths(1005)>>},
        cl \in {None, "cleared", "bogus"}, fc \in {None, "red", "pink"},
        d \in UpdateDates}

\* The transaction as the upstream holds it before any update.
InitialTx ==
    [memo |-> Groceries, amount |-> <<50000>>, payee_id |-> "P1", payee_name |-> "Shop",
     category_id |-> "C1", cleared |-> "cleared", approved |-> <<TRUE>>,
     flag_color |-> "red", date |-> Date_2024_02_29]

NoCall ==
    [tool |-> "none", impl |-> "module", cred |-> None, account_id |-> None,
     category_id |-> None, payee |-> NoPayee, since_date |-> NoneStr,
     transaction_type |-> None, empty_memo |-> <<>>, widget |-> FALSE,
     months |-> 0, upd |-> NoUpdate]

Creds == Tokens \cup {None}

\* get_transactions calls of app/tools.py
TxCalls ==
    {[NoCall EXCEPT !.tool = "get_transactions", !.cred = cr, !.account_id = a,
                    !.category_id = cat, !.payee = p, !.since_date = d,
                    !.transaction_type = ty, !.empty_memo = em, !.widget = w] :
        cr \in Creds, a \in {None, "A1"}, cat \in {None, "C1"}, p \in PayeeArgs,
        d \in SinceDates, ty \in {None, "unapproved"},
        em \in {<<>>, <<TRUE>>, <<FALSE>>}, w \in BOOLEAN}

\* get_transactions calls of app/tools/__init__.py, which has no category,
\* empty-memo or widget argument and takes one payee id
PkgTxCalls ==
    {[NoCall EXCEPT !.tool = "get_transactions", !.impl = "package", !.cred = cr,
                    !.account_id = a, !.payee = p, !.since_date = d,
                    !.transaction_type = ty] :
        cr \in Creds, a \in {None, "A1"},
        p \in {NoPayee} \cup {OnePayee(id) : id \in PayeeIds},
        d \in SinceDates, ty \in {None, "unapproved"}}

ReadCalls ==
    {[NoCall EXCEPT !.tool = t, !.impl = i, !.cred = cr,
                    !.account_id = IF t = "get_account" THEN "A1" ELSE None] :
        t \in ReadTools, i \in {"module", "package"}, cr \in Creds}

AnalyzeCalls ==
    {[NoCall EXCEPT !.tool = "analyze_spending", !.impl = i, !.cred = cr,
                    !.months = m] :
        i \in {"module", "package"}, cr \in Creds, m \in {0 - 1, 0, 3}}

UpdateCalls ==
    {[NoCall EXCEPT !.tool = "update_transaction", !.impl = i, !.cred = cr,
                    !.upd = u] :
        i \in {"module", "package"}, cr \in Creds, u \in Updates}

(***************************************************************************)
(* The state machine                                                       *)
(***************************************************************************)

MaxSlots == 2

\* The tool invocations that can be running at the same time.
Slots == 1..MaxSlots

\* No invocation has completed yet.
NoPrevious == [call |-> NoCall, result |-> NoResult, store |-> InitialTx]

\* An invocation that is not running.
IdleSlot ==
    [pc |-> "idle", call |-> NoCall, requests |-> <<>>, responses |-> <<>>,
     result |-> NoResult]

Init ==
    /\ pc = "idle"
    /\ call = NoCall
    /\ requests = <<>>
    /\ responses = <<>>
    /\ raised = NoExc
    /\ result = NoResult
    /\ store = InitialTx
    /\ now = 0
    /\ revoked = {}
    /\ rec = NoRecord
    /\ shown = NotShown
    /\ invocations = [s \in Slots |-> IdleSlot]
    /\ previous = NoPrevious

\* The tool ends: it returns or raises res.
Finish(resps, exc, res) ==
    /\ pc' = "done"
    /\ responses' = resps
    /\ raised' = exc
    /\ result' = res
    /\ UNCHANGED requests

\* A plausible slip: the remaining API-client calls are started together
\* (asyncio.gather) instead of being awaited one by one.
Advance_Gather(c, resps) ==
    IF Len(resps) >= Len(Tool_Plan(c))
    THEN Finish(resps, NoExc, Tool_Return(c, resps))
    ELSE LET m == Tool_Plan(c)[Len(resps) + 1]
         IN  IF ~m.valid
             THEN Finish(resps, m.invalid, Tool_Except(c, m.invalid))
             ELSE /\ pc' = "await"
                  /\ requests' = [i \in 1..Len(Tool_Plan(c)) |->
                                     Tool_Plan(c)[i].request]
                  /\ responses' = resps
                  /\ raised' = NoExc
                  /\ result' = NoResult

\* The tool runs on after `resps` successful answers, up to its next await
\* or its end.
Advance(c, resps) ==
    IF Len(resps) = Len(Tool_Plan(c))
    THEN Finish(resps, NoExc, Tool_Return(c, resps))
    ELSE LET m == Tool_Plan(c)[Len(resps) + 1]
         IN  IF ~m.valid
             THEN Finish(resps, m.invalid, Tool_Except(c, m.invalid))
             ELSE /\ pc' = "await"
                  /\ requests' = Append(requests, m.request)
                  /\ responses' = resps
                  /\ raised' = NoExc
                  /\ result' = NoResult

\* The protocol layer calls a tool.
Invoke(c) ==
    /\ call' = c
    /\ UNCHANGED store
    /\ IF Tool_Entry(c) # NoResult
       THEN Finish(<<>>, NoExc, Tool_Entry(c))
       ELSE Advance(c, <<>>)

Invoke_get_transactions ==
    /\ pc = "idle"
    /\ \E c \in TxCalls \cup PkgTxCalls : Invoke(c)
    /\ UNCHANGED otherVars

Invoke_read_tool ==
    /\ pc = "idle"
    /\ \E c \in ReadCalls : Invoke(c)
    /\ UNCHANGED otherVars

Invoke_analyze_spending ==
    /\ pc = "idle"
    /\ \E c \in AnalyzeCalls : Invoke(c)
    /\ UNCHANGED otherVars

Invoke_update_transaction ==
    /\ pc = "idle"
    /\ \E c \in UpdateCalls : Invoke(c)
    /\ UNCHANGED otherVars

\* Settings.max_retries: declared in the configuration, read nowhere.
max_retries == 3

\* A plausible slip: the client sends a failed request again, up to
\* max_retries attempts, before it gives up.
Respond_RetryOnFailure ==
    /\ pc = "await"
    /\ call.tool \in Tools
    /\ UNCHANGED otherVars
    /\ \E resp \in Answers(requests[Len(requests)], store) :
          LET m == Tool_Plan(call)[Len(requests)]
              e == ServiceRaise(m, MakeRequest(resp))
          IN  /\ store' = resp.tx
              /\ UNCHANGED call
              /\ IF e # NoExc /\ Len(requests) < max_retries
                 THEN /\ pc' = "await"
                      /\ requests' = Append(requests, requests[Len(requests)])
                      /\ responses' = Append(responses, resp)
                      /\ raised' = NoExc
                      /\ result' = NoResult
                 ELSE IF e # NoExc
                 THEN Finish(Append(responses, resp), e, Tool_Except(call, e))
                 ELSE Advance(call, Append(responses, resp))

\* The upstream answers the request in flight and the tool runs on.
Respond ==
    /\ pc = "await"
    /\ call.tool \in Tools
    /\ UNCHANGED otherVars
    /\ \E resp \in Answers(requests[Len(requests)], store) :
          LET m == Tool_Plan(call)[Len(requests)]
              e == ServiceRaise(m, MakeRequest(resp))
          IN  /\ store' = resp.tx
              /\ UNCHANGED call
              /\ IF e # NoExc
                 THEN Finish(Append(responses, resp), e, Tool_Except(call, e))
                 ELSE Advance(call, Append(responses, resp))

\* The protocol layer has the result; the server waits for the next call.
Complete ==
    /\ pc = "done"
    /\ pc' = "idle"
    /\ call' = NoCall
    /\ requests' = <<>>
    /\ responses' = <<>>
    /\ raised' = NoExc
    /\ result' = NoResult
    /\ UNCHANGED store
    /\ UNCHANGED otherVars

Next ==
    \/ Invoke_get_transactions
    \/ Invoke_read_tool
    \/ Invoke_analyze_spending
    \/ Invoke_update_transaction
    \/ Respond
    \/ Complete

Spec == Init /\ [][Next]_vars

(***************************************************************************)
(* Token verification as a state machine                                   *)
(***************************************************************************)

\* The longest time the clock runs, in half hours.
MaxTicks == 2

\* The tokens presented for verification.
VerifyTokens == Tokens \cup {TestToken}

\* A verify_token call: impl is the verifier, cred the token presented.
VerifyCalls ==
    {[NoCall EXCEPT !.tool = "verify_token", !.impl = v, !.cred = t] :
        v \in Verifiers, t \in VerifyTokens}

\* The authentication layer calls verify_token.  YNABTokenVerifier of
\* app/auth/ynab.py first tries super().verify_token, which the base class
\* does not implement: it goes on to the upstream in every case.
Verify ==
    /\ pc = "idle"
    /\ \E c \in VerifyCalls :
          /\ call' = c
          /\ IF VerifyBypass(c.impl, c.cred, now) # NoCredential
             THEN Finish(<<>>, NoExc, Return(VerifyBypass(c.impl, c.cred, now)))
             ELSE /\ pc' = "await"
                  /\ requests' = <<UserReq(c.cred)>>
                  /\ UNCHANGED <<responses, raised, result>>
    /\ UNCHANGED <<store, otherVars>>

\* The who-am-I call returns or raises, and verify_token returns.
VerifyRespond ==
    /\ pc = "await"
    /\ call.tool = "verify_token"
    /\ \E resp \in UserAnswers(call.cred, revoked) :
          Finish(<<resp>>, NoExc, Return(VerifyOutcome(call.impl, call.cred, resp, now)))
    /\ UNCHANGED <<call, store, otherVars>>

\* The upstream revokes a token (it expires, or its owner withdraws it).  A
\* verification in flight is answered before or after, not during.
Revoke ==
    /\ pc = "idle"
    /\ \E t \in VerifyTokens \ revoked : revoked' = revoked \cup {t}
    /\ UNCHANGED <<callVars, store, now, rec, shown, invocations, previous>>

\* Half an hour passes.
Tick ==
    /\ pc \in {"idle", "await"}
    /\ now < MaxTicks * 30 * 60
    /\ now' = now + 30 * 60
    /\ UNCHANGED <<callVars, store, revoked, rec, shown, invocations, previous>>

NextAuth ==
    \/ Verify
    \/ VerifyRespond
    \/ Complete
    \/ Revoke
    \/ Tick

SpecAuth == Init /\ [][NextAuth]_vars

(***************************************************************************)
(* update_transaction alone, over the subsets of its optional arguments    *)
(***************************************************************************)

Lunch == Str(<<"l", "u", "n", "c", "h">>)

\* One valid argument per update field, each different from what the
\* transaction holds at first.
NewValues ==
    [memo |-> Lunch, amount |-> <<Float(51, 1)>>, payee_id |-> "P2",
     payee_name |-> "Cafe", category_id |-> "C2", cleared |-> "reconciled",
     approved |-> <<FALSE>>, flag_color |-> "blue", date |-> Date_2024_1_5]

\* The sets of arguments a caller supplies: none, any one, all but any
\* one, and all.
SuppliedSets ==
    {{}} \cup {{f} : f \in UpdFields}
         \cup {UpdFields \ {f} : f \in UpdFields} \cup {UpdFields}

\* update_transaction(...) with exactly the arguments of S given.
Patch(S) == [f \in UpdFields |-> IF f \in S THEN NewValues[f] ELSE NoUpdate[f]]

PatchCalls ==
    {[NoCall EXCEPT !.tool = "update_transaction", !.impl = i, !.cred = cr,
                    !.upd = Patch(S)] :
        i \in {"module", "package"}, cr \in Tokens, S \in SuppliedSets}

Invoke_update_patch ==
    /\ pc = "idle"
    /\ \E c \in PatchCalls : Invoke(c)
    /\ UNCHANGED otherVars

NextUpdate ==
    \/ Invoke_update_patch
    \/ Respond
    \/ Complete

SpecUpdate == Init /\ [][NextUpdate]_vars

(***************************************************************************)
(* The ten tools, with updates that change what the upstream holds         *)
(***************************************************************************)

\* update_transaction with a new memo, or with nothing to change
MemoCalls ==
    {[NoCall EXCEPT !.tool = "update_transaction", !.impl = i, !.cred = cr,
                    !.upd = Patch(S)] :
        i \in {"module", "package"}, cr \in Tokens, S \in {{}, {"memo"}}}

Invoke_update_memo ==
    /\ pc = "idle"
    /\ \E c \in MemoCalls : Invoke(c)
    /\ UNCHANGED otherVars

NextReadWrite ==
    \/ Invoke_get_transactions
    \/ Invoke_read_tool
    \/ Invoke_analyze_spending
    \/ Invoke_update_memo
    \/ Respond
    \/ Complete

SpecReadWrite == Init /\ [][NextReadWrite]_vars

(***************************************************************************)
(* update_transaction invoked again and again                              *)
(***************************************************************************)

RepeatedCalls ==
    {[NoCall EXCEPT !.tool = "update_transaction", !.impl = i, !.cred = cr,
                    !.upd = Patch(S)] :
        i \in {"module", "package"}, cr \in Tokens,
        S \in {{}, {"memo"}, {"amount"}, {"memo", "cleared"}, UpdFields}}

Invoke_update_again ==
    /\ pc = "idle"
    /\ \E c \in RepeatedCalls : Invoke(c)
    /\ UNCHANGED otherVars

\* The protocol layer has the result; the invocation and the state it left
\* upstream are remembered for comparison with the next one.
Complete_Remember ==
    /\ pc = "done"
    /\ pc' = "idle"
    /\ call' = NoCall
    /\ requests' = <<>>
    /\ responses' = <<>>
    /\ raised' = NoExc
    /\ result' = NoResult
    /\ previous' = [call |-> call, result |-> result, store |-> store]
    /\ UNCHANGED <<store, now, revoked, rec, shown, invocations>>

NextRepeat ==
    \/ Invoke_update_again
    \/ Respond
    \/ Complete_Remember

SpecRepeat == Init /\ [][NextRepeat]_vars

(***************************************************************************)
(* Records and their monetary fields (app/models)                          *)
(***************************************************************************)

MaxWrites == 1

\* Amounts in milliunits: 50.0, -25.99, 0.0 and 0.001.
Milliunits == {50000, 0 - 25990, 0, 1}

\* The values of a monetary field f: an int, or None as well for the goal
\* fields of a category.
FieldValues(f) ==
    {<<m>> : m \in Milliunits}
        \cup (IF f \in OptionalMoneyFields THEN {<<>>} ELSE {})

\* The record under observation is built from an upstream payload:
\* Account(**data), Category(**data), ...
Materialize ==
    /\ rec = NoRecord
    /\ \E k \in RecordKinds, m \in Milliunits, g \in FieldValues("goal_target") :
          rec' = [kind |-> k,
                  fields |-> [f \in MoneyFields(k) |->
                                IF f \in OptionalMoneyFields THEN g ELSE <<m>>],
                  writes |-> 0]
    /\ UNCHANGED <<callVars, store, now, revoked, shown, invocations, previous>>

\* record.<field> = v: the models are not frozen.
Assign ==
    /\ rec.kind # "none"
    /\ rec.writes < MaxWrites
    /\ \E f \in DOMAIN rec.fields :
          \E v \in FieldValues(f) :
              rec' = [rec EXCEPT !.fields[f] = v, !.writes = @ + 1]
    /\ UNCHANGED <<callVars, store, now, revoked, shown, invocations, previous>>

\* record.<field>_formatted is read (model_dump reads every one of them).
Read ==
    /\ rec.kind # "none"
    /\ \E f \in DOMAIN rec.fields :
          shown' = [field |-> f, value |-> Formatted(rec.fields[f])]
    /\ UNCHANGED <<callVars, store, now, revoked, rec, invocations, previous>>

NextMoney ==
    \/ Materialize
    \/ Assign
    \/ Read

SpecMoney == Init /\ [][NextMoney]_vars

(***************************************************************************)
(* Tool invocations running side by side, each with its own credential     *)
(***************************************************************************)

ConcurrentTokens == Tokens \cup {"tokB"}

\* The invocations that run side by side: get_transactions for a list of
\* two payees (two requests) and update_transaction of the memo.
ConcurrentCalls ==
    {[NoCall EXCEPT !.tool = "get_transactions", !.cred = cr,
                    !.payee = PayeeList(<<"P1", "P2">>)] : cr \in ConcurrentTokens}
    \cup {[NoCall EXCEPT !.tool = "update_transaction", !.cred = cr,
                         !.upd = Patch({"memo"})] : cr \in ConcurrentTokens}

\* The upstream's answers in this specification: success or 401.
ConcurrentAnswers(req, cur) ==
    {r \in Answers(req, cur) : ~r.net /\ r.status \in {200, 401}}

\* A plausible slip: one service object shared by the invocations, so that
\* a request goes out with the token of whichever invocation set it last.
Bearer_Shared(c, others) ==
    IF others = {} THEN c.cred ELSE (CHOOSE o \in others : TRUE).cred

\* self.headers["Authorization"] of the YNABService the invocation with
\* arguments c built for itself; others: the other running invocations.
Bearer(c, others) == c.cred

\* The calls of the invocations other than s that are running.
Others(s) ==
    {invocations[t].call : t \in {u \in Slots \ {s} : invocations[u].pc # "idle"}}

\* The invocation has ended with res.
Ended(c, reqs, resps, res) ==
    [pc |-> "done", call |-> c, requests |-> reqs, responses |-> resps,
     result |-> res]

\* The invocation after `resps` successful answers, up to its next await or
\* its end.
Advanced(c, reqs, resps, others) ==
    IF Len(resps) = Len(Tool_Plan(c))
    THEN Ended(c, reqs, resps, Tool_Return(c, resps))
    ELSE LET m == Tool_Plan(c)[Len(resps) + 1]
         IN  IF ~m.valid
             THEN Ended(c, reqs, resps, Tool_Except(c, m.invalid))
             ELSE [pc |-> "await", call |-> c,
                   requests |-> Append(reqs, [m.request EXCEPT
                                                !.token = Bearer(c, others)]),
                   responses |-> resps, result |-> NoResult]

\* The protocol layer starts a tool in a free slot.
Start ==
    \E s \in Slots :
        /\ invocations[s].pc = "idle"
        /\ \E c \in ConcurrentCalls :
              invocations' = [invocations EXCEPT ![s] =
                  IF Tool_Entry(c) # NoResult
                  THEN Ended(c, <<>>, <<>>, Tool_Entry(c))
                  ELSE Advanced(c, <<>>, <<>>, Others(s))]
        /\ UNCHANGED <<callVars, store, now, revoked, rec, shown, previous>>

\* The upstream answers the request in flight of one invocation.
Answer ==
    \E s \in Slots :
        LET i == invocations[s]
        IN  /\ i.pc = "await"
            /\ \E resp \in ConcurrentAnswers(i.requests[Len(i.requests)], store) :
                  LET m == Tool_Plan(i.call)[Len(i.requests)]
                      e == ServiceRaise(m, MakeRequest(resp))
                      resps == Append(i.responses, resp)
                  IN  /\ store' = resp.tx
                      /\ invocations' = [invocations EXCEPT ![s] =
                            IF e # NoExc
                            THEN Ended(i.call, i.requests, resps,
                                       Tool_Except(i.call, e))
                            ELSE Advanced(i.call, i.requests, resps, Others(s))]
            /\ UNCHANGED <<callVars, now, revoked, rec, shown, previous>>

\* The protocol layer has the result of one invocation.
Deliver ==
    \E s \in Slots :
        /\ invocations[s].pc = "done"
        /\ invocations' = [invocations EXCEPT ![s] = IdleSlot]
        /\ UNCHANGED <<callVars, store, now, revoked, rec, shown, previous>>

NextConcurrent ==
    \/ Start
    \/ Answer
    \/ Deliver

SpecConcurrent == Init /\ [][NextConcurrent]_vars

(***************************************************************************)
(* Properties                                                              *)
(***************************************************************************)

\* The call in progress is a get_transactions call of an authenticated
\* caller, served by the given facade.
TxCall(impl) ==
    call.tool = "get_transactions" /\ call.impl = impl /\ Given(call.cred)

\* The tool has returned a response object that is not an error object.
Succeeded ==
    pc = "done" /\ result.kind = "return" /\ "error" \notin DOMAIN result.value

\* A memo is empty when it is absent or has nothing but whitespace in it.
MemoEmpty(t) ==
    TxData(t).memo.none
    \/ \A i \in 1..Len(TxData(t).memo.s) : TxData(t).memo.s[i] \in Whitespace

\* The transaction passes the empty-memo flag of the call, if one is given.
MemoPasses(t) ==
    \/ call.empty_memo = <<>>
    \/ call.empty_memo = <<TRUE>> /\ MemoEmpty(t)
    \/ call.empty_memo = <<FALSE>> /\ ~MemoEmpty(t)

\* The transaction's payee is the payee id, or one of the payee ids, of the
\* call, if any is given.
PayeePasses(t) ==
    LET p == ParsePayee(call.payee)
    IN  PayeeTruthy(p) => \E i \in 1..Len(p.ids) : TxData(t).payee_id = p.ids[i]

\* The transaction's category is the category id of the call, if one is given.
CategoryPasses(t) ==
    Given(call.category_id) => TxData(t).category_id = call.category_id

\* The rows of the first n answers, in the order the answers came.
RECURSIVE RowsOfFirst(_)
RowsOfFirst(n) ==
    IF n = 0 THEN <<>> ELSE RowsOfFirst(n - 1) \o responses[n].rows

\* C1: a get_transactions call with an account id, whatever other filters
\* come with it, sends at most one request, to the account-scoped endpoint
\* of that account and never to a category- or payee-scoped one; when it
\* succeeds it has sent exactly one and returns the rows of that answer that
\* pass the category, payee and empty-memo filters.
C1_AccountEndpointOnly ==
    ((TxCall("module") \/ TxCall("package")) /\ Given(call.account_id)) =>
        /\ Len(requests) <= 1
        /\ \A i \in 1..Len(requests) :
              /\ requests[i].endpoint = "account_transactions"
              /\ requests[i].id = call.account_id
        /\ Succeeded =>
              /\ Len(requests) = 1
              /\ result.value.transactions =
                    LET Keep(t) == CategoryPasses(t) /\ PayeePasses(t) /\ MemoPasses(t)
                    IN  SelectSeq(responses[1].rows, Keep)

C3_OneRequestPerPayee ==
    LET p == ParsePayee(call.payee)
    IN  (/\ TxCall("module")
         /\ ~Given(call.account_id)
         /\ ~Given(call.category_id)
         /\ p.kind = "list"
         /\ p.ids # <<>>) =>
            /\ Len(requests) <= Len(p.ids)
            /\ \A i \in 1..Len(requests) :
                  /\ requests[i].endpoint = "payee_transactions"
                  /\ requests[i].id = p.ids[i]
            /\ Succeeded =>
                  /\ Len(requests) = Len(p.ids)
                  /\ Len(responses) = Len(p.ids)
                  /\ result.value.transactions =
                        SelectSeq(RowsOfFirst(Len(p.ids)), MemoPasses)

\* C3, as stated for every n, n = 0 included: a call with a list of n
\* payee ids and neither an account id nor a category id sends payee-scoped
\* requests only, at most n of them, exactly n when it succeeds, and then
\* returns the concatenation of the n answers.
C3_AnyListLength ==
    LET p == ParsePayee(call.payee)
    IN  (/\ TxCall("module")
         /\ ~Given(call.account_id)
         /\ ~Given(call.category_id)
         /\ p.kind = "list") =>
            /\ Len(requests) <= Len(p.ids)
            /\ \A i \in 1..Len(requests) :
                  requests[i].endpoint = "payee_transactions"
            /\ Succeeded =>
                  /\ Len(requests) = Len(p.ids)
                  /\ result.value.transactions =
                        SelectSeq(RowsOfFirst(Len(p.ids)), MemoPasses)

\* A call with the same payee id twice in its list has succeeded: two
\* requests were sent and the result holds a transaction twice.
C3_Witness ==
    /\ TxCall("module")
    /\ ~Given(call.account_id)
    /\ ~Given(call.category_id)
    /\ call.payee = PayeeList(<<"P1", "P1">>)
    /\ call.empty_memo = <<>>
    /\ Succeeded
    /\ Len(requests) = 2
    /\ \E i, j \in 1..Len(result.value.transactions) :
          i < j /\ result.value.transactions[i] = result.value.transactions[j]

\* The endpoint the filters present select: account, else category, else
\* payee, else the unscoped list.
EndpointPolicy(account, category, payee) ==
    IF account THEN "account_transactions"
    ELSE IF category THEN "category_transactions"
    ELSE IF payee THEN "payee_transactions"
    ELSE "transactions"

\* C4: every request of a get_transactions call goes to the endpoint that
\* the presence of the account, category and payee filters selects; one
\* request is sent, or one per id for a list of payee ids with no account
\* and no category.
C4_EndpointPolicy ==
    LET p == ParsePayee(call.payee)
        account  == Given(call.account_id)
        category == Given(call.category_id)
        payee    == PayeeTruthy(p)
    IN  (TxCall("module") \/ TxCall("package")) =>
            /\ \A i \in 1..Len(requests) :
                  requests[i].endpoint = EndpointPolicy(account, category, payee)
            /\ Len(requests) <=
                  (IF ~account /\ ~category /\ payee THEN Len(p.ids) ELSE 1)
            /\ Succeeded =>
                  Len(requests) =
                     (IF ~account /\ ~category /\ payee THEN Len(p.ids) ELSE 1)

\* C5: the empty-memo flag changes no request, and selects among the rows
\* the other filters leave: with the flag true exactly those whose memo is
\* absent or blank after trimming, with the flag false exactly the others,
\* without the flag all of them.
C5_EmptyMemoClientSide ==
    LET unflagged == [call EXCEPT !.empty_memo = <<>>]
    IN  TxCall("module") =>
            /\ \A i \in 1..Len(requests) :
                  requests[i] = GetTransactions_Plan(unflagged)[i].request
            /\ Succeeded =>
                  result.value.transactions =
                     SelectSeq(GetTransactions_Filter(unflagged, Fetched(responses)),
                               MemoPasses)

\* A call with the flag true has succeeded: it kept a transaction whose memo
\* is whitespace only and one whose memo is absent, and dropped another.
C5_Witness ==
    /\ TxCall("module")
    /\ call.empty_memo = <<TRUE>>
    /\ Succeeded
    /\ \E i \in 1..Len(result.value.transactions) :
          result.value.transactions[i] = "T2"
    /\ \E i \in 1..Len(result.value.transactions) :
          result.value.transactions[i] = "T1"
    /\ Len(result.value.transactions) < Len(Fetched(responses))

\* A well-formed YYYY-MM-DD date of the calendar: four, two and two digits
\* around two dashes, naming a day that exists.
IsYMD(cs) ==
    /\ Len(cs) = 10
    /\ cs[5] = "-"
    /\ cs[8] = "-"
    /\ AllDigits(SubSeq(cs, 1, 4))
    /\ AllDigits(SubSeq(cs, 6, 7))
    /\ AllDigits(SubSeq(cs, 9, 10))
    /\ IsCalendarDate(NumVal(SubSeq(cs, 1, 4)), NumVal(SubSeq(cs, 6, 7)),
                      NumVal(SubSeq(cs, 9, 10)))

\* The date argument of the call in progress: since_date of
\* get_transactions, date of update_transaction.
DateArg ==
    IF call.tool = "update_transaction" THEN call.upd.date ELSE call.since_date

\* The call in progress is one that reaches a date-taking method of the API
\* client (get_transactions, get_payee_transactions or update_transaction)
\* with a date string; an empty since_date is no filter.
DateCall ==
    /\ call.tool \in {"get_transactions", "update_transaction"}
    /\ Given(call.cred)
    /\ Tool_Entry(call) = NoResult
    /\ ~(call.tool = "get_transactions" /\ call.impl = "module"
         /\ Branch(call) \in {"category", "category_payee"})
    /\ ~DateArg.none
    /\ (call.tool = "get_transactions" => DateArg.s # <<>>)

\* The date a request carries upstream.
DateSent(req) ==
    IF req.method = "PUT"
    THEN (IF "date" \in DOMAIN req.payload THEN req.payload.date ELSE NoneStr)
    ELSE req.since_date

\* C6: a date string that is not a valid YYYY-MM-DD calendar date makes the
\* API-client method fail with the invalid-date condition without a request
\* being sent; a valid one passes and every request of the call carries it.
C6_InvalidDateNeverSent ==
    DateCall =>
        IF IsYMD(DateArg.s)
        THEN /\ requests # <<>>
             /\ \A i \in 1..Len(requests) : DateSent(requests[i]) = DateArg
        ELSE /\ requests = <<>>
             /\ pc = "done"
             /\ raised.cls = "InvalidDateException"

\* The tool has handed the protocol layer an error object.
ReturnedError ==
    pc = "done" /\ result.kind = "return" /\ "error" \in DOMAIN result.value

\* The last answer of the upstream, once there is one.
LastResponse == responses[Len(responses)]

\* C7: when the upstream answers 401 to the request of a tool, the tool
\* returns an error object and raises nothing.
C7_UnauthorizedReturnsError ==
    (/\ pc = "done"
     /\ responses # <<>>
     /\ ~LastResponse.net
     /\ LastResponse.status = 401) => ReturnedError

\* C8: when get_transactions or update_transaction is called with a date
\* that the date validation rejects, the tool returns an error object and
\* raises nothing.
C8_InvalidDateReturnsError ==
    (/\ pc = "done"
     /\ call.tool \in {"get_transactions", "update_transaction"}
     /\ Given(call.cred)
     /\ Tool_Entry(call) = NoResult
     /\ ~ValidateDateFormat(DateArg)) => ReturnedError

\* C9: when the upstream answers 404, 429 or another non-2xx status but 401,
\* or the transport fails, the tool returns an object with an "error"
\* message and with the identifying field of what was not found or the
\* status code, and raises nothing; and an object returned after the
\* upstream answered every request with a 2xx has no "error" key.
C9_UpstreamFailureReturnsError ==
    (pc = "done" /\ responses # <<>>) =>
        IF LastResponse.net \/ LastResponse.status \notin (200..299) \cup {401}
        THEN /\ ReturnedError
             /\ DOMAIN result.value
                  \cap {"budget_id", "account_id", "payee_id", "category_id",
                        "status_code"} # {}
        ELSE (LastResponse.status \in 200..299 /\ result.kind = "return") =>
                "error" \notin DOMAIN result.value

\* C10: a tool called without a credential returns the no-credential error
\* object at once: no request is sent and no argument is validated first.
C10_NoCredentialFirst ==
    (call.tool \in Tools /\ ~Given(call.cred)) =>
        /\ pc = "done"
        /\ requests = <<>>
        /\ responses = <<>>
        /\ result = Return(NoTokenError)

\* update_transaction was called without a credential and with a cleared
\* status that is not valid: the missing credential is what it reported.
C10_Witness ==
    /\ call.tool = "update_transaction"
    /\ ~Given(call.cred)
    /\ call.upd.cleared \notin ClearedStatuses \cup {None}
    /\ pc = "done"
    /\ requests = <<>>
    /\ result = Return(NoTokenError)

\* A verify_token call has returned.
VerifyDone == pc = "done" /\ call.tool = "verify_token"

\* The who-am-I call of the verification got a response with this status.
Answered(status) ==
    /\ responses # <<>>
    /\ responses[1].kind = "response"
    /\ responses[1].status = status

\* C11: in every verifier, a verification whose who-am-I call is answered
\* with a status other than 200, whatever the body, or times out, or fails
\* in transport, returns no credential.
C11_NotOkIsInvalid ==
    (/\ VerifyDone
     /\ responses # <<>>
     /\ ~Answered(200)) => result = Return(NoCredential)

\* The installed verifier got a 401 whose body looks like a who-am-I
\* payload, and returned no credential.
C11_Witness ==
    /\ VerifyDone
    /\ call.impl = "main"
    /\ Answered(401)
    /\ responses[1].body = "user"
    /\ result = Return(NoCredential)

C13_FixedHorizonBelowLifetime ==
    (VerifyDone /\ result.value.valid) =>
        /\ result.value.expires_at - now = 90 * 60
        /\ result.value.expires_at - now < 2 * 60 * 60

\* C14: every verification sends its own who-am-I request for the token it
\* is given, and a verification of a token the upstream has revoked returns
\* no credential.
C14_AlwaysAsksUpstream ==
    VerifyDone =>
        /\ Len(requests) = 1
        /\ requests[1] = UserReq(call.cred)
        /\ call.cred \in revoked => result = Return(NoCredential)

\* A tool of the server is running or has just ended.
InToolCall == pc \in {"await", "done"} /\ call.tool \in Tools

\* The i-th answer of the call was a failure: the API client raised on it.
Failed(i) == MakeRequest(responses[i]) # NoExc

\* C15: the API client never retries.  The requests of a tool call are,
\* one for one and in order, the API-client calls the tool makes; a failed
\* answer is the last of the call: the tool ends on it with the failure
\* surfaced (an error object or an exception) and no request follows it.
C15_NoRetry ==
    InToolCall =>
        /\ Len(requests) <= Len(Tool_Plan(call))
        /\ \A i \in 1..Len(requests) : requests[i] = Tool_Plan(call)[i].request
        /\ \A i \in 1..Len(responses) :
              Failed(i) =>
                 /\ i = Len(responses)
                 /\ Len(requests) = i
                 /\ pc = "done"
                 /\ raised # NoExc
                 /\ result.kind = "raise" \/ ReturnedError

\* analyze_spending, which makes two API-client calls when all goes well,
\* ended after a rate-limited first answer with one request sent.
C15_Witness ==
    /\ pc = "done"
    /\ call.tool = "analyze_spending"
    /\ Len(Tool_Plan(call)) = 2
    /\ Len(requests) = 1
    /\ responses[1].status = 429
    /\ Failed(1)
    /\ ReturnedError

\* C16: the API client maps every upstream response to exactly one outcome
\* by its status: 2xx to the decoded payload, 401 to the unauthenticated
\* error, 429 to the rate-limit error carrying the retry-after hint when the
\* response supplies one, 404 to the not-found error, and any other status
\* to the generic API error carrying that status code.
C16_OneOutcomePerStatus ==
    InToolCall =>
        \A i \in 1..Len(responses) :
            LET r == responses[i]
                e == MakeRequest(r)
            IN  ~r.net =>
                  CASE r.status \in 200..299 -> e = NoExc
                    [] r.status = 401 -> e = AuthenticationException
                    [] r.status = 429 ->
                          /\ e.cls = "RateLimitException"
                          /\ e.status_code = <<429>>
                          /\ r.retry_after # "absent" => e.retry_after # <<>>
                    [] r.status = 404 ->
                          /\ e.cls = "YNABAPIException"
                          /\ e.status_code = <<404>>
                    [] OTHER ->
                          /\ e.cls = "YNABAPIException"
                          /\ e.status_code = <<r.status>>

\* The update fields the caller of the running update_transaction supplied.
Supplied(c) == {f \in UpdFields : ~IsNoneField(f, c.upd[f])}

\* The upstream answers the update in flight and the tool returns the
\* transaction.
UpdateReturns ==
    /\ pc = "await"
    /\ call.tool = "update_transaction"
    /\ pc' = "done"
    /\ result'.kind = "return"
    /\ "error" \notin DOMAIN result'.value

\* C17: update_transaction sends a partial patch.  For every set S of
\* supplied fields the payload of its request has exactly the fields of S,
\* and when the upstream merges the patch and echoes the result, every
\* field outside S of the returned transaction has the value the upstream
\* held before the update.
C17_PartialPatch ==
    [][/\ (pc' = "await" /\ call'.tool = "update_transaction") =>
             DOMAIN requests'[1].payload = Supplied(call')
       /\ UpdateReturns =>
             /\ DOMAIN requests[1].payload = Supplied(call)
             /\ \A f \in UpdFields \ Supplied(call) : result'.value[f] = store[f]
             /\ \A f \in Supplied(call) :
                   result'.value[f] = requests[1].payload[f]]_vars

\* An update of the memo alone returned the new memo and left every other
\* field as it was.
C17_Witness ==
    /\ pc = "done"
    /\ call.tool = "update_transaction"
    /\ Supplied(call) = {"memo"}
    /\ requests[1].payload = [memo |-> Lunch]
    /\ result.kind = "return"
    /\ "error" \notin DOMAIN result.value
    /\ result.value.memo = Lunch
    /\ InitialTx.memo # Lunch
    /\ \A f \in UpdFields \ {"memo"} : result.value[f] = InitialTx[f]

\* The call c gives update_transaction a cleared status or a flag colour
\* outside the allowed values.
InvalidEnum(c) ==
    \/ c.upd.cleared # None /\ c.upd.cleared \notin ClearedStatuses
    \/ c.upd.flag_color # None /\ c.upd.flag_color \notin FlagColors

\* C18: update_transaction called, with a credential, with a cleared status
\* or a flag colour outside the allowed values ends at once with an
\* invalid-input error object; it sends no request and the transaction
\* the upstream holds is unchanged.
C18_InvalidEnumRejected ==
    [][(/\ pc = "idle"
        /\ call'.tool = "update_transaction"
        /\ Given(call'.cred)
        /\ InvalidEnum(call')) =>
            /\ pc' = "done"
            /\ requests' = <<>>
            /\ store' = store
            /\ result'.kind = "return"
            /\ "error" \in DOMAIN result'.value
            /\ result'.value.error[1] \in
                  {"Invalid cleared status '", "Invalid flag color '"}]_vars

\* The decimal d is exactly m / 1000.
IsThousandth(d, m) ==
    /\ d.units >= 0
    /\ d.thousandths \in 0..999
    /\ d.neg = (m < 0)
    /\ (IF d.neg THEN 0 - 1 ELSE 1) * (d.units * 1000 + d.thousandths) = m

\* C19: a record holds its monetary fields as integers only, and every read
\* of a formatted value computes it from the integer the field holds at
\* that moment: it is exactly milliunits / 1000, and None for a goal field
\* that is None.  The read changes nothing in the record.
C19_FormattedOnRead ==
    [][/\ rec'.kind # "none" => DOMAIN rec'.fields = MoneyFields(rec'.kind)
       /\ shown' # shown =>
             /\ rec' = rec
             /\ shown'.field \in DOMAIN rec.fields
             /\ LET v == rec.fields[shown'.field]
                IN  IF v = <<>> THEN shown'.value = <<>>
                    ELSE /\ shown'.value # <<>>
                         /\ IsThousandth(shown'.value[1], v[1])]_vars

\* A transaction whose amount was assigned after it was built reads as
\* -25.99 for -25990 milliunits.
C19_Witness ==
    /\ rec.kind = "Transaction"
    /\ rec.writes = 1
    /\ rec.fields.amount = <<0 - 25990>>
    /\ shown.field = "amount"
    /\ shown.value = <<[neg |-> TRUE, units |-> 25, thousandths |-> 990]>>

\* The requests of the running tool call that have no answer yet.
InFlight == Len(requests) - Len(responses)

\* C20: within a tool call at most one request is in flight.  While the
\* tool waits exactly one request is unanswered, and otherwise none: the
\* request for element i+1 of a payee list, and the second request of
\* analyze_spending, are sent only after the answer to the one before.
C20_OneInFlight ==
    call.tool \in Tools \cup {"none"} =>
        /\ InFlight = (IF pc = "await" THEN 1 ELSE 0)
        /\ \A i \in 1..Len(requests) : requests[i] = Tool_Plan(call)[i].request

\* get_transactions with a list of two payee ids waits for its second
\* request, having the answer to the first.
C20_Witness ==
    /\ pc = "await"
    /\ TxCall("module")
    /\ call.payee.kind = "list"
    /\ Len(call.payee.ids) = 2
    /\ Len(requests) = 2
    /\ Len(responses) = 1
    /\ requests[1].endpoint = "payee_transactions"
    /\ requests[1].id = call.payee.ids[1]
    /\ requests[2].id = call.payee.ids[2]

\* C21: tool invocations are independent.  Under every interleaving of
\* invocations, every request of an invocation carries that invocation's own
\* bearer token and is the request its own arguments call for, and two
\* invocations with the same arguments, credential and upstream answers
\* have the same result, whatever else ran before or beside them.
C21_Independent ==
    \A s \in Slots :
        LET i == invocations[s]
        IN  /\ \A k \in 1..Len(i.requests) :
                  /\ i.requests[k].token = i.call.cred
                  /\ i.requests[k] = Tool_Plan(i.call)[k].request
            /\ \A t \in Slots :
                  (/\ i.pc = "done"
                   /\ invocations[t].pc = "done"
                   /\ invocations[t].call = i.call
                   /\ invocations[t].responses = i.responses) =>
                        invocations[t].result = i.result

\* Two invocations with different credentials each wait for their second
\* request, and each one's requests carry its own token.
C21_Witness ==
    /\ invocations[1].pc = "await"
    /\ invocations[2].pc = "await"
    /\ invocations[1].call.cred # invocations[2].call.cred
    /\ Len(invocations[1].requests) = 2
    /\ Len(invocations[2].requests) = 2
    /\ invocations[1].requests[2].token = invocations[1].call.cred
    /\ invocations[2].requests[2].token = invocations[2].call.cred

\* The tools declared read-only.
ReadOnlyTools == Tools \ {"update_transaction"}

\* C22: every read-only tool sends GET requests only and, whatever its
\* arguments and whatever the upstream answers, leaves the transaction the
\* upstream holds as it was; a PUT request is sent by update_transaction
\* alone.
C22_ReadOnlyTools ==
    [][/\ \A i \in 1..Len(requests') :
             /\ call'.tool \in ReadOnlyTools => requests'[i].method = "GET"
             /\ requests'[i].method # "GET" => call'.tool = "update_transaction"
       /\ (call.tool \in ReadOnlyTools \/ call'.tool \in ReadOnlyTools) =>
             store' = store]_vars

\* After an update has changed the upstream's memo, a read-only tool got a
\* successful answer to its GET request and the memo is still the new one.
C22_Witness ==
    /\ pc = "done"
    /\ call.tool = "get_transactions"
    /\ Len(requests) = 1
    /\ requests[1].method = "GET"
    /\ responses[1].status = 200
    /\ store.memo = Lunch
    /\ store # InitialTx

\* The result res is a returned transaction, not an error object.
ReturnedRecord(res) == res.kind = "return" /\ "error" \notin DOMAIN res.value

\* update_transaction has just succeeded for the second time in succession
\* with the same arguments.
SucceededTwice ==
    /\ pc = "done"
    /\ call.tool = "update_transaction"
    /\ previous.call = call
    /\ ReturnedRecord(previous.result)
    /\ ReturnedRecord(result)

SubResourceEndpoints ==
    {"account", "account_transactions", "payee_transactions", "transaction"}

\* The last request of the tool call was for a sub-resource and was
\* answered 404 with a body the client can decode.
SubResource404 ==
    /\ pc = "done"
    /\ call.tool \in Tools
    /\ responses # <<>>
    /\ Len(requests) = Len(responses)
    /\ requests[Len(requests)].endpoint \in SubResourceEndpoints
    /\ ~responses[Len(responses)].net
    /\ responses[Len(responses)].status = 404
    /\ responses[Len(responses)].body # "not_json"

\* C24: a 404 answer to an API-client method scoped to a sub-resource is
\* told apart by the text of the upstream's error message: when the message
\* names the budget the method raises budget-not-found with the budget id,
\* otherwise it raises the not-found error of the sub-resource (account or
\* payee) with the id of that resource.
C24_NotFoundByMessage ==
    SubResource404 =>
        LET req == requests[Len(requests)]
            msg == ErrorDetail(responses[Len(responses)].body, ResourceNotFound)
        IN  IF MentionsBudget(msg)
            THEN raised = BudgetNotFoundException(BudgetId)
            ELSE CASE req.endpoint \in {"account", "account_transactions"} ->
                          raised = AccountNotFoundException(req.id)
                   [] req.endpoint = "payee_transactions" ->
                          raised = PayeeNotFoundException(req.id)
                   [] OTHER ->
                          /\ raised.cls \notin {"YNABAPIException",
                                                "BudgetNotFoundException"}
                          /\ raised.id = req.id

\* C25: in every branch of get_transactions, each upstream request carries
\* the since-date and the transaction-type the caller supplied as query
\* parameters, and carries neither when it was not supplied (None, or the
\* empty string for the date).
C25_QueryParametersPassedOn ==
    (call.tool = "get_transactions" /\ Given(call.cred)) =>
        \A i \in 1..Len(requests) :
            /\ requests[i].since_date =
                  (IF Truthy(call.since_date) THEN call.since_date ELSE NoneStr)
            /\ requests[i].type = call.transaction_type

\* A call for a list of two payees with a since-date and a type has sent
\* both requests, each with both parameters.
C25_Witness ==
    /\ TxCall("module")
    /\ call.payee.kind = "list"
    /\ Len(requests) = 2
    /\ call.since_date = Date_2024_02_29
    /\ call.transaction_type = "unapproved"
    /\ requests[2].endpoint = "payee_transactions"
    /\ requests[2].since_date = Date_2024_02_29
    /\ requests[2].type = "unapproved"

\* The amount a has at most three decimal places.
ThreeDecimals(a) == a.finite /\ (a.decimal \/ (a.m * 1000) % Pow2(a.e) = 0)

\* amount x 1000 for an amount with at most three decimal places
ExactMilliunits(a) == IF a.decimal THEN a.m ELSE (a.m * 1000) \div Pow2(a.e)

\* C26: update_transaction sends the caller's amount as integer milliunits
\* equal to amount x 1000 exactly: an amount with at most three decimal
\* places loses and gains no milliunit.
C26_ExactMilliunits ==
    (/\ call.tool = "update_transaction"
     /\ requests # <<>>
     /\ call.upd.amount # <<>>
     /\ ThreeDecimals(call.upd.amount[1])) =>
        requests[1].payload.amount = <<ExactMilliunits(call.upd.amount[1])>>

AccountPasses(t) ==
    Given(call.account_id) => TxData(t).account_id = call.account_id

\* Every answer of the call lists exactly the budget's transactions in the
\* scope of its request.
ScopedAnswers ==
    \A i \in 1..Len(responses) : responses[i].rows = ScopeRows(requests[i])

\* No payee id is given twice.
NoRepeats(ids) == \A i, j \in 1..Len(ids) : ids[i] = ids[j] => i = j

\* The sequences a and b hold the same transactions, each as often.
SameItems(a, b) ==
    /\ Len(a) = Len(b)
    /\ {a[i] : i \in 1..Len(a)} = {b[i] : i \in 1..Len(b)}
    /\ NoRepeats(a) <=> NoRepeats(b)

\* C27: every supplied filter is honoured.  When the upstream's scoped
\* endpoints list exactly the transactions in their scope, the transactions
\* get_transactions returns are exactly the budget's transactions that
\* pass the account, category, payee and empty-memo filters supplied.
C27_AllFiltersHonoured ==
    (/\ TxCall("module") \/ TxCall("package")
     /\ Succeeded
     /\ ScopedAnswers
     /\ NoRepeats(ParsePayee(call.payee).ids)) =>
        LET Keep(t) == /\ AccountPasses(t)
                       /\ CategoryPasses(t)
                       /\ PayeePasses(t)
                       /\ MemoPasses(t)
        IN  SameItems(result.value.transactions, SelectSeq(Budget, Keep))

\* get_transactions of app/tools.py has ended in its payee-list branch on
\* an answer the API client raised on.
PayeeListFailed ==
    /\ pc = "done"
    /\ TxCall("module")
    /\ Branch(call) = "payee_list"
    /\ responses # <<>>
    /\ Failed(Len(responses))

\* C28: when the request for the k-th id of a payee list fails, the tool
\* sends no request for a later id and returns the error object alone: the
\* transactions fetched for the ids before k are not returned.
C28_NoPartialResult ==
    PayeeListFailed =>
        /\ Len(requests) = Len(responses)
        /\ ReturnedError
        /\ "transactions" \notin DOMAIN result.value

\* C29: no verifier returns a valid credential for a token unless, in that
\* same verification, the who-am-I endpoint was called with that token and
\* answered 200.
C29_OnlyUpstreamConfirms ==
    (VerifyDone /\ result.kind = "return" /\ result.value.valid) =>
        /\ requests = <<UserReq(call.cred)>>
        /\ Answered(200)

\* C30: analyze_spending never raises.  For every value of months, zero and
\* negative included, and whatever transactions its two requests fetched, it
\* hands back an object: the analysis or the error object.
C30_AnalyzeNeverRaises ==
    (/\ pc = "done"
     /\ call.tool = "analyze_spending"
     /\ Given(call.cred)
     /\ Len(responses) = 2
     /\ \A i \in 1..Len(responses) : ~Failed(i)) => result.kind = "return"

====
